---- MODULE Spec2Model ----
(***************************************************************************)
(* A model of the y-crdt (yrs) document store: the block store and the     *)
(* branch sequences of src/yrs/src/store.rs and src/yrs/src/types/mod.rs,  *)
(* the update exchange between replicas, and the readers-writer            *)
(* discipline of StoreRef.                                                 *)
(*                                                                         *)
(* An ID is a pair <<client, clock>>.  An item is a record                 *)
(*   [id, len, origin, right_origin, parent, kind, content, deleted].      *)
(* A store holds the per-client block lists (`blocks`), for every branch   *)
(* the chain start -> right -> right ... as the sequence of the item ids   *)
(* (`seqs`), the parked updates (`pending`) and the deletions that could   *)
(* not be applied yet (`pending_ds`).                                      *)
(***************************************************************************)
EXTENDS Integers, Sequences, FiniteSets, TLC

VARIABLES
    store,      \* store[r]: the Store of replica r
    updates,    \* the updates produced by the committed local transactions
    applied,    \* applied[r]: the indices of `updates` delivered to replica r
    borrow,     \* StoreRef: the borrow state of the AtomicRefCell<Store>
    txns,       \* StoreRef: txns[t] is what thread t holds on the store
    attempt,    \* StoreRef: the outcome of the last try_borrow / try_borrow_mut
    version,    \* StoreRef: number of mutations committed to the store
    subscribed, \* the kinds of events that have a subscriber
    txn,        \* the transaction of the observed document
    calls,      \* the callbacks invoked by the last commit, in order
    types,      \* Store::types: the root branch of each name in use
    branches,   \* the branches allocated so far; a pointer is an index
    node_registry,  \* Store::node_registry: the pointers of the alive nodes
    returned,   \* what the last lookup of a root type returned
    input,      \* the bytes a decoder is to read
    weak,       \* whether the build has the feature "weak"
    decoded,    \* what decoding the input gave
    hasher,     \* a ClientHasher
    build,      \* whether the build has debug assertions
    endian,     \* the byte order of the platform
    linked,     \* the items of replica 1 whose info says they are linked
    linked_by   \* Store::linked_by of replica 1: the branches linking an item

vars ==
    <<store, updates, applied, borrow, txns, attempt, version, subscribed,
      txn, calls, types, branches, node_registry, returned, input, weak,
      decoded, hasher, build, endian, linked, linked_by>>

crdtVars == <<store, updates, applied>>
lockVars == <<borrow, txns, attempt, version>>
commitVars == <<subscribed, txn, calls>>
typeVars == <<types, branches, node_registry, returned>>
codecVars == <<input, weak, decoded>>
hashVars == <<hasher, build, endian>>
linkVars == <<linked, linked_by>>
utilVars == <<typeVars, codecVars, hashVars, linkVars>>

----------------------------------------------------------------------------
(* Bounds and input domains *)

\* number of local transactions that produce an update
MaxOps == 2

\* the replicas; replica r writes with client_id r
Clients == {1, 2, 3}

\* the replicas that run local transactions (replica 3 only receives)
Writers == {1, 2}

\* lengths of the strings a local insert_at writes
ValueLens == {2}

\* lengths a local remove_at is asked to remove
RemoveLens == {2}

\* the indices a local insert_at is called with on a branch of length n:
\* the start, inside the first item, the end
InsertIndexes(n) == {0, 1, n} \cap 0..n

\* the indices a local remove_at is called with
RemoveIndexes(n) == {0, 1} \cap 0..(n - 1)

----------------------------------------------------------------------------
(* IDs, items, block lists *)

None == <<>>

\* the parent of the items of the root branch
Root == <<0, 0>>

ID(client, clock) == <<client, clock>>

Max(a, b) == IF a > b THEN a ELSE b

ClockEnd(item) == item.id[2] + item.len

LastId(item) == ID(item.id[1], item.id[2] + item.len - 1)

\* the element ids an item covers
ItemIds(item) == {ID(item.id[1], k) : k \in item.id[2]..(ClockEnd(item) - 1)}

IsCountable(item) == item.kind # "format"

EmptyStore ==
    [blocks |-> [c \in Clients |-> <<>>],
     seqs |-> (Root :> <<>>),
     pending |-> {},
     pending_ds |-> {}]

\* BlockStore::get_clock
GetClock(s, client) ==
    LET bl == s.blocks[client]
    IN IF Len(bl) = 0 THEN 0 ELSE ClockEnd(bl[Len(bl)])

\* BlockStore::get_state_vector: one entry per client that has blocks
GetStateVector(s) ==
    [c \in {d \in Clients : Len(s.blocks[d]) > 0} |-> GetClock(s, c)]

\* StateVector::get: 0 for a client without an entry
SvGet(sv, client) == IF client \in DOMAIN sv THEN sv[client] ELSE 0

\* ClientBlockList::find_pivot: index of the cell that contains `clock`, 0 if none
FindPivot(bl, clock) ==
    IF \E i \in 1..Len(bl) : bl[i].id[2] <= clock /\ clock < ClockEnd(bl[i])
    THEN CHOOSE i \in 1..Len(bl) : bl[i].id[2] <= clock /\ clock < ClockEnd(bl[i])
    ELSE 0

HasId(s, id) == id[1] \in Clients /\ id[2] < GetClock(s, id[1])

\* BlockStore::get_item: the item whose clock range contains id
GetItem(s, id) == s.blocks[id[1]][FindPivot(s.blocks[id[1]], id[2])]

IsDeleted(s, id) == HasId(s, id) /\ GetItem(s, id).deleted

\* position of the item with the given id in a branch sequence, 0 if absent
PosOf(seq, id) ==
    IF \E i \in 1..Len(seq) : seq[i] = id
    THEN CHOOSE i \in 1..Len(seq) : seq[i] = id
    ELSE 0

InsertAt(seq, i, x) == SubSeq(seq, 1, i) \o <<x>> \o SubSeq(seq, i + 1, Len(seq))

\* a split whose right piece forgets the deleted flag of the original
SplitBlockLive(s, id, offset) ==
    LET bl == s.blocks[id[1]]
        i == FindPivot(bl, id[2])
        item == bl[i]
        l == [item EXCEPT !.len = offset,
                          !.content = SubSeq(item.content, 1, offset)]
        r == [item EXCEPT !.id = ID(id[1], id[2] + offset),
                          !.len = item.len - offset,
                          !.origin = ID(id[1], id[2] + offset - 1),
                          !.content = SubSeq(item.content, offset + 1, item.len),
                          !.deleted = FALSE]
        seq == s.seqs[item.parent]
    IN IF offset <= 0 \/ offset >= item.len
       THEN s
       ELSE [s EXCEPT !.blocks[id[1]] = InsertAt([bl EXCEPT ![i] = l], i, r),
                      !.seqs[item.parent] = InsertAt(seq, PosOf(seq, id), r.id)]

\* Item::splice / BlockStore::split_block: cut the item that starts at `id`
\* at `offset`; the right piece takes the clock id+offset, the last id of
\* the left piece as origin, the right origin and the flags of the original
SplitBlock(s, id, offset) ==
    LET bl == s.blocks[id[1]]
        i == FindPivot(bl, id[2])
        item == bl[i]
        l == [item EXCEPT !.len = offset,
                          !.content = SubSeq(item.content, 1, offset)]
        r == [item EXCEPT !.id = ID(id[1], id[2] + offset),
                          !.len = item.len - offset,
                          !.origin = ID(id[1], id[2] + offset - 1),
                          !.content = SubSeq(item.content, offset + 1, item.len)]
        seq == s.seqs[item.parent]
    IN IF offset <= 0 \/ offset >= item.len
       THEN s
       ELSE [s EXCEPT !.blocks[id[1]] = InsertAt([bl EXCEPT ![i] = l], i, r),
                      !.seqs[item.parent] = InsertAt(seq, PosOf(seq, id), r.id)]

\* an item begins exactly at id (BlockStore::get_item_clean_start)
CleanStart(s, id) ==
    LET item == GetItem(s, id)
    IN SplitBlock(s, item.id, id[2] - item.id[2])

\* an item ends exactly at id (BlockStore::get_item_clean_end)
CleanEnd(s, id) ==
    LET item == GetItem(s, id)
    IN SplitBlock(s, item.id, id[2] - item.id[2] + 1)

----------------------------------------------------------------------------
(* Integration of an item: YATA conflict resolution (Item::integrate) *)

\* position in seq of the item whose clock range contains id, 0 if absent
PosContaining(s, seq, id) ==
    IF HasId(s, id) THEN PosOf(seq, GetItem(s, id).id) ELSE 0

\* a scan that lets the item of the larger client take the earlier position
RECURSIVE ConflictScanLarger(_, _, _, _, _, _, _, _)
ConflictScanLarger(s, seq, item, oPos, rightPos, left, before, conflicting) ==
    IF oPos > Len(seq) \/ oPos = rightPos
    THEN left
    ELSE IF item.origin = GetItem(s, seq[oPos]).origin
    THEN IF GetItem(s, seq[oPos]).id[1] > item.id[1]
         THEN ConflictScanLarger(s, seq, item, oPos + 1, rightPos, oPos,
                                 before \cup {oPos}, {})
         ELSE IF item.right_origin = GetItem(s, seq[oPos]).right_origin
         THEN left
         ELSE ConflictScanLarger(s, seq, item, oPos + 1, rightPos, left,
                                 before \cup {oPos},
                                 conflicting \cup {oPos})
    ELSE IF /\ GetItem(s, seq[oPos]).origin # None
            /\ PosContaining(s, seq, GetItem(s, seq[oPos]).origin)
                   \in before \cup {oPos}
    THEN IF PosContaining(s, seq, GetItem(s, seq[oPos]).origin)
               \notin conflicting \cup {oPos}
         THEN ConflictScanLarger(s, seq, item, oPos + 1, rightPos, oPos,
                                 before \cup {oPos}, {})
         ELSE ConflictScanLarger(s, seq, item, oPos + 1, rightPos, left,
                                 before \cup {oPos},
                                 conflicting \cup {oPos})
    ELSE left

\* the scan over the conflicting items o = seq[oPos], from the right of
\* our left neighbour up to our right neighbour; yields the position of
\* the item that becomes our left neighbour (0: we become the start)
RECURSIVE ConflictScan(_, _, _, _, _, _, _, _)
ConflictScan(s, seq, item, oPos, rightPos, left, before, conflicting) ==
    IF oPos > Len(seq) \/ oPos = rightPos
    THEN left
    ELSE LET o == GetItem(s, seq[oPos])
             before2 == before \cup {oPos}
             conflicting2 == conflicting \cup {oPos}
             oOrigin == IF o.origin = None THEN 0
                        ELSE PosContaining(s, seq, o.origin)
         IN IF item.origin = o.origin
            THEN IF o.id[1] < item.id[1]
                 THEN ConflictScan(s, seq, item, oPos + 1, rightPos, oPos,
                                   before2, {})
                 ELSE IF item.right_origin = o.right_origin
                 THEN left
                 ELSE ConflictScan(s, seq, item, oPos + 1, rightPos, left,
                                   before2, conflicting2)
            ELSE IF o.origin # None /\ oOrigin \in before2
                 THEN IF oOrigin \notin conflicting2
                      THEN ConflictScan(s, seq, item, oPos + 1, rightPos, oPos,
                                        before2, {})
                      ELSE ConflictScan(s, seq, item, oPos + 1, rightPos, left,
                                        before2, conflicting2)
                 ELSE left

\* the items at the origins of the item are cut so that its left neighbour
\* ends at its origin and its right neighbour starts at its right origin
CutAtOrigins(s, item) ==
    IF item.right_origin = None
    THEN IF item.origin = None THEN s ELSE CleanEnd(s, item.origin)
    ELSE CleanStart(IF item.origin = None THEN s
                    ELSE CleanEnd(s, item.origin),
                    item.right_origin)

\* position of the origin of the item in the sequence of its parent, 0
\* without origin
OriginPos(s, item) ==
    IF item.origin = None THEN 0
    ELSE PosContaining(s, s.seqs[item.parent], item.origin)

\* position of the right origin, past the end without right origin
RightOriginPos(s, item) ==
    IF item.right_origin = None THEN Len(s.seqs[item.parent]) + 1
    ELSE PosContaining(s, s.seqs[item.parent], item.right_origin)

\* the item is appended to the block list of its client and linked into the
\* sequence of its parent after position `left`
Link(s, item, left) ==
    [s EXCEPT !.blocks[item.id[1]] = Append(@, item),
              !.seqs = IF item.kind = "type"
                       THEN (item.id :> <<>>)
                            @@ [@ EXCEPT ![item.parent] =
                                   InsertAt(@, left, item.id)]
                       ELSE [@ EXCEPT ![item.parent] =
                                InsertAt(@, left, item.id)]]

\* the scan from the right of the origin
ScanFrom(s, item, leftPos) ==
    ConflictScan(s, s.seqs[item.parent], item, leftPos + 1,
                 RightOriginPos(s, item), leftPos, {}, {})

\* TransactionMut::delete: the item that starts at id is marked deleted
DeleteItem(s, id) ==
    LET i == FindPivot(s.blocks[id[1]], id[2])
    IN [s EXCEPT !.blocks[id[1]][i].deleted = TRUE]

\* the items written under the key of the root map form a sequence of their
\* own, named by the pair of the branch and the key
Entry == <<0, 1>>

\* an integration under a map key that deletes only the item to the left of
\* the last item, never an item integrated to the left of another
SupersedeByLast(s, item) ==
    IF item.parent # Entry
    THEN s
    ELSE IF PosOf(s.seqs[Entry], item.id) < Len(s.seqs[Entry])
    THEN s
    ELSE IF PosOf(s.seqs[Entry], item.id) > 1
    THEN DeleteItem(s, s.seqs[Entry][PosOf(s.seqs[Entry], item.id) - 1])
    ELSE s

\* an item integrated under a map key: the last item of the key's sequence
\* is the value of the key and the item to its left is deleted; an item that
\* is integrated with an item to its right is not the value and is deleted
\* itself
Supersede(s, item) ==
    IF item.parent # Entry
    THEN s
    ELSE IF PosOf(s.seqs[Entry], item.id) < Len(s.seqs[Entry])
    THEN DeleteItem(s, item.id)
    ELSE IF PosOf(s.seqs[Entry], item.id) > 1
    THEN DeleteItem(s, s.seqs[Entry][PosOf(s.seqs[Entry], item.id) - 1])
    ELSE s

\* s: the store with the origins cut
IntegrateCut(s, item) == Link(s, item, ScanFrom(s, item, OriginPos(s, item)))

\* an integration without the scan: the item is linked right after its
\* origin, whatever was inserted there concurrently
IntegrateUnordered(s, item) ==
    Link(CutAtOrigins(s, item), item,
         OriginPos(CutAtOrigins(s, item), item))

\* Item::integrate: the item (whose clock is the next clock of its client
\* and whose origins and parent are in the store) is appended to the block
\* list of its client and linked into the sequence of its parent
Integrate(s, item) ==
    Supersede(IntegrateCut(CutAtOrigins(s, item), item), item)

----------------------------------------------------------------------------
(* Branch operations of src/yrs/src/types/mod.rs *)

\* item.right: the id of the next item of the sequence, None at the end
RightOf(s, id) ==
    LET seq == s.seqs[GetItem(s, id).parent]
        i == PosOf(seq, id)
    IN IF i < Len(seq) THEN seq[i + 1] ELSE None

\* branch.start
StartOf(s, branch) ==
    IF Len(s.seqs[branch]) = 0 THEN None ELSE s.seqs[branch][1]

\* the live countable items of a branch, in sequence order
LiveItems(s, branch) ==
    SelectSeq([i \in 1..Len(s.seqs[branch]) |-> GetItem(s, s.seqs[branch][i])],
              LAMBDA it : ~it.deleted /\ IsCountable(it))

RECURSIVE SumLen(_)
SumLen(items) ==
    IF Len(items) = 0 THEN 0 ELSE Head(items).len + SumLen(Tail(items))

\* Branch::len (block_len): the number of live countable elements
BranchLen(s, branch) == SumLen(LiveItems(s, branch))

\* Branch::index_to_ptr: walks the chain from ptr; yields the store (an
\* item is split when index falls inside it) and the pair (left, right)
\* a get_at that does not look at the deleted flag of an item
RECURSIVE GetAtFromAny(_, _, _)
GetAtFromAny(s, ptr, index) ==
    IF ptr = None
    THEN None
    ELSE IF IsCountable(GetItem(s, ptr))
    THEN IF index < GetItem(s, ptr).len
         THEN <<GetItem(s, ptr).content, index>>
         ELSE GetAtFromAny(s, RightOf(s, ptr), index - GetItem(s, ptr).len)
    ELSE GetAtFromAny(s, RightOf(s, ptr), index)

\* Branch::get_at, the loop from an item: the content of the item that holds
\* the index and the offset in it, None past the end
RECURSIVE GetAtFrom(_, _, _)
GetAtFrom(s, ptr, index) ==
    IF ptr = None
    THEN None
    ELSE IF ~GetItem(s, ptr).deleted /\ IsCountable(GetItem(s, ptr))
    THEN IF index < GetItem(s, ptr).len
         THEN <<GetItem(s, ptr).content, index>>
         ELSE GetAtFrom(s, RightOf(s, ptr), index - GetItem(s, ptr).len)
    ELSE GetAtFrom(s, RightOf(s, ptr), index)

GetAt(s, branch, index) == GetAtFrom(s, StartOf(s, branch), index)

\* an index_to_ptr that counts the deleted items too
RECURSIVE IndexToPtrAny(_, _, _)
IndexToPtrAny(s, ptr, index) ==
    IF ptr = None
    THEN [store |-> s, left |-> None, right |-> None]
    ELSE LET item == GetItem(s, ptr)
             content_len == item.len
         IN IF IsCountable(item)
            THEN IF index = content_len
                 THEN [store |-> s, left |-> ptr, right |-> RightOf(s, ptr)]
                 ELSE IF index < content_len
                 THEN [store |-> SplitBlock(s, ptr, index), left |-> ptr,
                       right |-> ID(ptr[1], ptr[2] + index)]
                 ELSE IndexToPtrAny(s, RightOf(s, ptr), index - content_len)
            ELSE IndexToPtrAny(s, RightOf(s, ptr), index)

RECURSIVE IndexToPtr(_, _, _)
IndexToPtr(s, ptr, index) ==
    IF ptr = None
    THEN [store |-> s, left |-> None, right |-> None]
    ELSE LET item == GetItem(s, ptr)
             content_len == item.len
         IN IF ~item.deleted /\ IsCountable(item)
            THEN IF index = content_len
                 THEN [store |-> s, left |-> ptr, right |-> RightOf(s, ptr)]
                 ELSE IF index < content_len
                 THEN [store |-> SplitBlock(s, ptr, index), left |-> ptr,
                       right |-> ID(ptr[1], ptr[2] + index)]
                 ELSE IndexToPtr(s, RightOf(s, ptr), index - content_len)
            ELSE IndexToPtr(s, RightOf(s, ptr), index)

\* the loop of Branch::remove_at: yields the store, what remains to be
\* removed and the ids deleted (the delete set of the transaction)
\* a removal that deletes up to the remaining length of an item deletes the
\* whole item
RECURSIVE RemoveLoopWhole(_, _, _, _)
RemoveLoopWhole(s, ptr, remaining, ds) ==
    IF remaining = 0 \/ ptr = None
    THEN [store |-> s, remaining |-> remaining, ds |-> ds]
    ELSE IF ~GetItem(s, ptr).deleted
    THEN RemoveLoopWhole(DeleteItem(s, ptr), RightOf(s, ptr),
                         Max(0, remaining - GetItem(s, ptr).len),
                         ds \cup ItemIds(GetItem(s, ptr)))
    ELSE RemoveLoopWhole(s, RightOf(s, ptr), remaining, ds)

RECURSIVE RemoveLoop(_, _, _, _)
RemoveLoop(s, ptr, remaining, ds) ==
    IF remaining = 0 \/ ptr = None
    THEN [store |-> s, remaining |-> remaining, ds |-> ds]
    ELSE LET item == GetItem(s, ptr)
         IN IF ~item.deleted
            THEN IF remaining < item.len
                 THEN LET s2 == SplitBlock(s, ptr, remaining)
                      IN RemoveLoop(DeleteItem(s2, ptr),
                                    ID(ptr[1], ptr[2] + remaining), 0,
                                    ds \cup ItemIds(GetItem(s2, ptr)))
                 ELSE RemoveLoop(DeleteItem(s, ptr), RightOf(s, ptr),
                                 remaining - item.len, ds \cup ItemIds(item))
            ELSE RemoveLoop(s, RightOf(s, ptr), remaining, ds)

\* where Branch::remove_at starts: the start of the branch for index 0,
\* else the right side of index_to_ptr
RemoveStart(s, branch, index) ==
    IF index = 0
    THEN [store |-> s, left |-> None, right |-> StartOf(s, branch)]
    ELSE IndexToPtr(s, StartOf(s, branch), index)

\* what Branch::remove_at returns (len - remaining), with the store and the
\* delete set of the transaction; r: the outcome of the loop
Removed(r, len) ==
    [store |-> r.store, removed |-> len - r.remaining, ds |-> r.ds]

\* the loop of Branch::remove_at run from the position p
RemoveFrom(p, len) == Removed(RemoveLoop(p.store, p.right, len, {}), len)

\* Branch::remove_at
RemoveAt(s, branch, index, len) ==
    RemoveFrom(RemoveStart(s, branch, index), len)

\* the store with the item integrated, and the item
Integrated(s, item) == [store |-> Integrate(s, item), item |-> item]

\* TransactionMut::create_item: the new item takes the next clock of the
\* local client, its origins from the position, and is integrated
CreateItem(s, client, parent, left, right, kind, content, len) ==
    Integrated(s, [id |-> ID(client, GetClock(s, client)),
                   len |-> len,
                   origin |-> IF left = None THEN None
                              ELSE LastId(GetItem(s, left)),
                   right_origin |-> right,
                   parent |-> parent,
                   kind |-> kind,
                   content |-> content,
                   deleted |-> FALSE])

\* the position Branch::insert_at passes to create_item: (None, None) for
\* index 0, else the pair of index_to_ptr
InsertPosition(s, branch, index) ==
    IF index = 0
    THEN [store |-> s, left |-> None, right |-> None]
    ELSE IndexToPtr(s, StartOf(s, branch), index)

\* the item is linked right after the left side of the position p
Spliced(p, branch, c) ==
    [c EXCEPT !.store = Link(p.store, c.item,
                             IF p.left = None THEN 0
                             ELSE PosOf(p.store.seqs[branch], p.left))]

\* the new item is created with its origins and then linked at p
SpliceAt(p, client, branch, kind, content, len) ==
    Spliced(p, branch,
            CreateItem(p.store, client, branch, p.left, p.right, kind,
                       content, len))

\* an insert_at that links the new item at the position it computed
\* instead of integrating it
InsertAtIndexSpliced(s, client, branch, index, kind, content, len) ==
    SpliceAt(InsertPosition(s, branch, index), client, branch, kind, content,
             len)

\* txn.create_item(&pos, value, None) at the position p
CreateAt(p, client, branch, kind, content, len) ==
    CreateItem(p.store, client, branch, p.left, p.right, kind, content, len)

\* Branch::insert_at
InsertAtIndex(s, client, branch, index, kind, content, len) ==
    CreateAt(InsertPosition(s, branch, index), client, branch, kind, content,
             len)

----------------------------------------------------------------------------
(* Updates: the blocks and the delete set a transaction or a diff carries *)

\* the block of an update as it is written: without the local deleted flag
Encoded(item) == [item EXCEPT !.deleted = FALSE]

\* ItemSlice with a start offset (trim_start): the part of the item from
\* clock id+offset on, its origin the element before it
TrimStart(item, offset) ==
    IF offset <= 0 THEN item
    ELSE [item EXCEPT !.id = ID(item.id[1], item.id[2] + offset),
                      !.len = item.len - offset,
                      !.origin = ID(item.id[1], item.id[2] + offset - 1),
                      !.content = SubSeq(item.content, offset + 1, item.len)]

\* a skip test that lets through the block that ends at the local clock
IsKnownStrict(s, b) == ClockEnd(b) < GetClock(s, b.id[1])

\* a block all of whose clocks the store already holds is skipped
IsKnown(s, b) == ClockEnd(b) <= GetClock(s, b.id[1])

\* the not yet integrated part of a block
Unknown(s, b) == TrimStart(b, GetClock(s, b.id[1]) - b.id[2])

ParentPresent(s, parent) == parent \in DOMAIN s.seqs

\* a block can be integrated: it continues the clocks of its client, and
\* its origins and its parent are in the store
IsReady(s, b) ==
    /\ b.id[2] = GetClock(s, b.id[1])
    /\ b.origin = None \/ HasId(s, b.origin)
    /\ b.right_origin = None \/ HasId(s, b.right_origin)
    /\ ParentPresent(s, b.parent)

\* the blocks of an update the store does not hold yet
Todo(s, blocks) == {b \in blocks : ~IsKnown(s, b)}

\* those of them that can be integrated now
Ready(s, blocks) == {b \in Todo(s, blocks) : IsReady(s, Unknown(s, b))}

\* the order of integration: higher clients first, clocks ascending
FirstBlock(ready) ==
    CHOOSE x \in ready : \A y \in ready :
        \/ x.id[1] > y.id[1]
        \/ x.id[1] = y.id[1] /\ x.id[2] <= y.id[2]

\* Update::integrate: the blocks are integrated as their dependencies
\* allow; yields the store and the blocks that miss a dependency
RECURSIVE IntegrateBlocks(_, _)
IntegrateBlocks(s, blocks) ==
    IF Ready(s, blocks) = {}
    THEN [store |-> s, rest |-> Todo(s, blocks)]
    ELSE IntegrateBlocks(
             Integrate(s, Unknown(s, FirstBlock(Ready(s, blocks)))),
             Todo(s, blocks) \ {FirstBlock(Ready(s, blocks))})

\* the delete loop of TransactionMut::apply_delete over the blocks of one
\* client from index i on: an item is split where the range of deleted
\* clocks begins or ends inside it, its deleted part is marked deleted
RECURSIVE DeleteRange(_, _, _, _)
DeleteRange(s, client, ds, i) ==
    IF i > Len(s.blocks[client])
    THEN s
    ELSE LET item == s.blocks[client][i]
             inDs == {k \in item.id[2]..(ClockEnd(item) - 1) :
                         ID(client, k) \in ds}
             first == item.id[2]
         IN IF item.deleted \/ inDs = {}
            THEN DeleteRange(s, client, ds, i + 1)
            ELSE IF first \notin inDs
            THEN LET k == CHOOSE x \in inDs : \A y \in inDs : x <= y
                 IN DeleteRange(SplitBlock(s, item.id, k - first), client, ds,
                                i + 1)
            ELSE LET run == {k \in inDs : \A j \in first..k : j \in inDs}
                     s2 == SplitBlock(s, item.id, Cardinality(run))
                 IN DeleteRange(DeleteItem(s2, item.id), client, ds, i + 1)

RECURSIVE DeleteClients(_, _, _)
DeleteClients(s, ds, clients) ==
    IF clients = {}
    THEN s
    ELSE LET c == CHOOSE x \in clients : \A y \in clients : x <= y
         IN DeleteClients(DeleteRange(s, c, ds, 1), ds, clients \ {c})

\* TransactionMut::apply_delete: the ids the store holds are deleted, the
\* others are kept in the pending delete set
ApplyDelete(s, ds) ==
    LET all == ds \cup s.pending_ds
        s2 == DeleteClients(s, all, Clients)
    IN [s2 EXCEPT !.pending_ds = {id \in all : ~HasId(s, id)}]

\* the parked updates that miss nothing any more
Integrable(s) == {p \in s.pending : IntegrateBlocks(s, p.blocks).rest = {}}

\* a parked update is integrated and leaves `pending`
IntegratePending(s, p) ==
    ApplyDelete([IntegrateBlocks(s, p.blocks).store EXCEPT !.pending = @ \ {p}],
                p.ds)

\* parked updates that are never tried again
RetryPendingNever(s) == s

\* the parked updates are integrated once nothing they need is missing
RECURSIVE RetryPending(_)
RetryPending(s) ==
    IF Integrable(s) = {}
    THEN s
    ELSE RetryPending(IntegratePending(s, CHOOSE p \in Integrable(s) : TRUE))

\* the blocks of the update are integrated, its delete set is applied and
\* the parked updates are tried again
IntegrateUpdate(s, u) ==
    RetryPending(ApplyDelete(IntegrateBlocks(s, u.blocks).store, u.ds))

\* an apply_update that drops the update it cannot integrate
ApplyUpdateDropping(s, u) ==
    IF IntegrateBlocks(s, u.blocks).rest # {}
    THEN s
    ELSE IntegrateUpdate(s, u)

\* TransactionMut::apply_update: an update with a missing dependency is
\* parked in `pending`; otherwise its blocks are integrated, its delete
\* set is applied and the parked updates are tried again
ApplyUpdate(s, u) ==
    IF IntegrateBlocks(s, u.blocks).rest # {}
    THEN [s EXCEPT !.pending = @ \cup {u}]
    ELSE IntegrateUpdate(s, u)

----------------------------------------------------------------------------
(* Diff encoding of src/yrs/src/store.rs *)

\* DeleteSet::from(&BlockStore): the ids of all deleted items
DeleteSetOf(s) ==
    UNION {ItemIds(s.blocks[c][i]) :
              <<c, i>> \in {x \in Clients \X (0..8) :
                               /\ x[2] \in 1..Len(s.blocks[x[1]])
                               /\ s.blocks[x[1]][x[2]].deleted}}

\* the entries of a set of clients in ascending order
RECURSIVE Ascending(_)
Ascending(clients) ==
    IF clients = {} THEN <<>>
    ELSE LET c == CHOOSE x \in clients : \A y \in clients : x <= y
         IN <<c>> \o Ascending(clients \ {c})

RECURSIVE DiffRemote(_, _, _)
DiffRemote(local_sv, remote_sv, clients) ==
    IF Len(clients) = 0 THEN <<>>
    ELSE LET client == Head(clients)
             remote_clock == remote_sv[client]
             local_clock == SvGet(local_sv, client)
         IN (IF local_clock > remote_clock
             THEN <<<<client, remote_clock>>>> ELSE <<>>)
            \o DiffRemote(local_sv, remote_sv, Tail(clients))

RECURSIVE DiffLocal(_, _, _)
DiffLocal(local_sv, remote_sv, clients) ==
    IF Len(clients) = 0 THEN <<>>
    ELSE LET client == Head(clients)
         IN (IF SvGet(remote_sv, client) = 0
             THEN <<<<client, 0>>>> ELSE <<>>)
            \o DiffLocal(local_sv, remote_sv, Tail(clients))

\* a diff of state vectors without the loop over the local entries
DiffStateVectorsRemoteOnly(local_sv, remote_sv) ==
    DiffRemote(local_sv, remote_sv, Ascending(DOMAIN remote_sv))

\* Store::diff_state_vectors: the (client, clock) pairs to write, first
\* those of the loop over the remote entries, then those of the loop over
\* the local entries
DiffStateVectors(local_sv, remote_sv) ==
    DiffRemote(local_sv, remote_sv, Ascending(DOMAIN remote_sv))
    \o DiffLocal(local_sv, remote_sv, Ascending(DOMAIN local_sv))

\* diff.sort_by(|a, b| b.0.cmp(&a.0)): stable, descending by client
RECURSIVE SortDescending(_)
SortDescending(diff) ==
    IF Len(diff) = 0 THEN <<>>
    ELSE LET top == CHOOSE c \in {diff[i][1] : i \in 1..Len(diff)} :
                        \A i \in 1..Len(diff) : diff[i][1] <= c
         IN SelectSeq(diff, LAMBDA e : e[1] = top)
            \o SortDescending(SelectSeq(diff, LAMBDA e : e[1] # top))

\* a section whose first block is written whole
WriteSectionUntrimmed(s, client, remote_clock) ==
    LET blocks == s.blocks[client]
        clock == Max(remote_clock, IF Len(blocks) > 0 THEN blocks[1].id[2] ELSE 0)
        start == FindPivot(blocks, clock)
    IN [count |-> Len(blocks) - start + 1,
        client |-> client,
        clock |-> clock,
        blocks |-> [i \in 1..(Len(blocks) - start + 1) |->
                       Encoded(blocks[start + i - 1])]]

\* one client section of write_blocks_from: the number of blocks, the
\* client, the start clock, the first block trimmed at its offset and the
\* following blocks whole
WriteSection(s, client, remote_clock) ==
    LET blocks == s.blocks[client]
        clock == Max(remote_clock, IF Len(blocks) > 0 THEN blocks[1].id[2] ELSE 0)
        start == FindPivot(blocks, clock)
        first_block == blocks[start]
        offset == clock - first_block.id[2]
    IN [count |-> Len(blocks) - start + 1,
        client |-> client,
        clock |-> clock,
        blocks |-> <<Encoded(TrimStart(first_block, offset))>>
                   \o [i \in 1..(Len(blocks) - start) |->
                          Encoded(blocks[start + i])]]

\* Store::write_blocks_from
WriteBlocksFrom(s, sv) ==
    LET diff == SortDescending(DiffStateVectors(GetStateVector(s), sv))
    IN [count |-> Len(diff),
        sections |-> [i \in 1..Len(diff) |->
                         WriteSection(s, diff[i][1], diff[i][2])]]

\* a diff whose delete set is restricted to the blocks it emits
EncodeDiffEmitted(s, sv) ==
    [blocks |-> WriteBlocksFrom(s, sv),
     ds |-> {id \in DeleteSetOf(s) : SvGet(sv, id[1]) <= id[2]}]

\* Store::encode_diff: the blocks the remote misses, then the delete set
\* of the whole block store
EncodeDiff(s, sv) ==
    [blocks |-> WriteBlocksFrom(s, sv), ds |-> DeleteSetOf(s)]

\* Update::decode: the blocks of all sections and the delete set
DecodeUpdate(enc) ==
    [blocks |-> UNION {{enc.blocks.sections[i].blocks[j] :
                           j \in 1..Len(enc.blocks.sections[i].blocks)} :
                       i \in 1..Len(enc.blocks.sections)},
     ds |-> enc.ds]

----------------------------------------------------------------------------
(* StoreRef: the AtomicRefCell<Store> behind read-only and mutable         *)
(* transactions                                                            *)

\* the threads that open transactions on one document
Threads == {1, 2, 3}

\* number of mutations the mutable transactions make to the store
MaxVersion == 2

\* the borrow state of the cell when a mutable borrow is held; n >= 0 is
\* the number of shared borrows
MutBorrowed == 0 - 1

NoAttempt == [thread |-> 0, kind |-> "none", result |-> "none"]

\* a try_borrow that leaves its increment of the counter behind when it
\* is refused
TryBorrowCounting(b) ==
    IF b = MutBorrowed
    THEN [borrow |-> b + 1, result |-> "AlreadyBorrowedMut"]
    ELSE [borrow |-> b + 1, result |-> "ok"]

\* StoreRef::try_borrow: a shared borrow is refused while the cell is
\* mutably borrowed
TryBorrow(b) ==
    IF b = MutBorrowed
    THEN [borrow |-> b, result |-> "AlreadyBorrowedMut"]
    ELSE [borrow |-> b + 1, result |-> "ok"]

\* a try_borrow_mut that is refused by another mutable borrow only
TryBorrowMutShared(b) ==
    IF b = MutBorrowed
    THEN [borrow |-> b, result |-> "AlreadyBorrowed"]
    ELSE [borrow |-> MutBorrowed, result |-> "ok"]

\* StoreRef::try_borrow_mut: a mutable borrow is refused while the cell is
\* borrowed in any way
TryBorrowMut(b) ==
    IF b # 0
    THEN [borrow |-> b, result |-> "AlreadyBorrowed"]
    ELSE [borrow |-> MutBorrowed, result |-> "ok"]

----------------------------------------------------------------------------
(* The replicas: local transactions and the exchange of updates *)

\* a document every replica holds: the string of two elements that
\* client 3 inserted into the root branch
BaseStore ==
    Integrate(EmptyStore,
              [id |-> ID(3, 0), len |-> 2, origin |-> None,
               right_origin |-> None, parent |-> Root, kind |-> "string",
               content |-> <<ID(3, 0), ID(3, 1)>>, deleted |-> FALSE])

\* the replicas start from the same document, empty or not
InitStore ==
    /\ \E s \in {EmptyStore, BaseStore} : store = [r \in Clients |-> s]
    /\ updates = <<>>
    /\ applied = [r \in Clients |-> {}]

InitLock ==
    /\ borrow = 0
    /\ txns = [t \in Threads |-> "none"]
    /\ attempt = NoAttempt
    /\ version = 0

----------------------------------------------------------------------------
(* Commit of a transaction and the dispatch of its events.  One document is
   observed; a branch is named by its path from the root, a state vector
   holds the clock of the one client that writes. *)

Kinds ==
    {"observe", "observe_deep", "update_v1", "update_v2",
     "after_transaction", "transaction_cleanup"}

Branches == {<<>>, <<"a">>, <<"b">>, <<"a", "c">>}

StateVector(clock) == [client \in {1} |-> clock]

InitCommit ==
    /\ subscribed = {}
    /\ txn = [open |-> FALSE, clock |-> 0, deleted |-> {},
              before_state |-> StateVector(0), after_state |-> StateVector(0),
              delete_set |-> {}, changed |-> <<>>]
    /\ calls = <<>>

\* a callback invoked with the events handed to it
Call(kind, events) == [kind |-> kind, events |-> events]

\* the event of a changed branch; its path is the path of the branch
Event(branch) == [path |-> branch]

\* the sorted events with one more event: after the events whose path is
\* not longer (a stable sort)
InsertByPathLen(sorted, e) ==
    SubSeq(sorted, 1,
           Cardinality({i \in 1..Len(sorted) :
                           Len(sorted[i].path) <= Len(e.path)}))
    \o <<e>>
    \o SubSeq(sorted,
              Cardinality({i \in 1..Len(sorted) :
                              Len(sorted[i].path) <= Len(e.path)}) + 1,
              Len(sorted))

\* events.sort_by(path length)
RECURSIVE SortByPathLen(_)
SortByPathLen(events) ==
    IF events = <<>>
    THEN <<>>
    ELSE InsertByPathLen(SortByPathLen(SubSeq(events, 1, Len(events) - 1)),
                         events[Len(events)])

\* Events::new that hands over the events in the order they were collected
EventsNewUnsorted(events) == events

\* Events::new: the events sorted by path length, all of them
EventsNew(events) == SortByPathLen(events)

\* BranchPtr::trigger of every changed branch: its observers get its event
Trigger(sub, t) ==
    IF "observe" \in sub
    THEN [i \in 1..Len(t.changed) |-> Call("observe", <<t.changed[i]>>)]
    ELSE <<>>

\* BranchPtr::trigger_deep: the deep observers of the root get the events of
\* the changed branches
TriggerDeep(sub, t) ==
    IF "observe_deep" \in sub /\ t.changed # <<>>
    THEN <<Call("observe_deep", EventsNew(t.changed))>>
    ELSE <<>>

\* emit_update_v1 that triggers its callbacks whatever the transaction did
EmitUpdateV1Always(sub, t) ==
    IF "update_v1" \in sub THEN <<Call("update_v1", <<>>)>> ELSE <<>>

EmitUpdateV1(sub, t) ==
    IF "update_v1" \in sub
    THEN IF t.delete_set # {} \/ t.after_state # t.before_state
         THEN <<Call("update_v1", <<>>)>>
         ELSE <<>>
    ELSE <<>>

EmitUpdateV2(sub, t) ==
    IF "update_v2" \in sub
    THEN IF t.delete_set # {} \/ t.after_state # t.before_state
         THEN <<Call("update_v2", <<>>)>>
         ELSE <<>>
    ELSE <<>>

EmitAfterTransaction(sub, t) ==
    IF "after_transaction" \in sub
    THEN <<Call("after_transaction", <<>>)>>
    ELSE <<>>

EmitTransactionCleanup(sub, t) ==
    IF "transaction_cleanup" \in sub
    THEN <<Call("transaction_cleanup", <<>>)>>
    ELSE <<>>

\* a commit that emits the cleanup event before the update events
DispatchCleanupFirst(sub, t) ==
    Trigger(sub, t) \o TriggerDeep(sub, t) \o EmitAfterTransaction(sub, t)
    \o EmitTransactionCleanup(sub, t) \o EmitUpdateV1(sub, t)
    \o EmitUpdateV2(sub, t)

\* the callbacks of a commit, in the order it triggers them
Dispatch(sub, t) ==
    Trigger(sub, t) \o TriggerDeep(sub, t) \o EmitUpdateV1(sub, t)
    \o EmitUpdateV2(sub, t) \o EmitAfterTransaction(sub, t)
    \o EmitTransactionCleanup(sub, t)

\* the changed branches with one more: a branch is recorded once
AddChanged(changed, branch) ==
    IF \E i \in 1..Len(changed) : changed[i] = Event(branch)
    THEN changed
    ELSE Append(changed, Event(branch))

Subscribe(kind) ==
    /\ ~txn.open
    /\ kind \notin subscribed
    /\ subscribed' = subscribed \cup {kind}
    /\ UNCHANGED <<txn, calls, crdtVars, lockVars, utilVars>>

BeginTxn ==
    /\ ~txn.open
    /\ txn' = [txn EXCEPT !.open = TRUE,
                          !.before_state = StateVector(txn.clock),
                          !.after_state = StateVector(txn.clock),
                          !.delete_set = {},
                          !.changed = <<>>]
    /\ calls' = <<>>
    /\ UNCHANGED <<subscribed, crdtVars, lockVars, utilVars>>

\* the transaction inserts an element in the branch
TxnInsert(branch) ==
    /\ txn.open
    /\ txn.clock < MaxOps
    /\ txn' = [txn EXCEPT !.clock = @ + 1,
                          !.changed = AddChanged(@, branch)]
    /\ UNCHANGED <<subscribed, calls, crdtVars, lockVars, utilVars>>

\* the transaction deletes the element of the clock in the branch
TxnRemove(branch, clock) ==
    /\ txn.open
    /\ clock \in 0..(txn.clock - 1)
    /\ clock \notin txn.deleted
    /\ txn' = [txn EXCEPT !.deleted = @ \cup {clock},
                          !.delete_set = @ \cup {clock},
                          !.changed = AddChanged(@, branch)]
    /\ UNCHANGED <<subscribed, calls, crdtVars, lockVars, utilVars>>

\* the after state of the committing transaction
Committed(t) ==
    [t EXCEPT !.open = FALSE, !.after_state = StateVector(t.clock)]

CommitTxn ==
    /\ txn.open
    /\ txn' = Committed(txn)
    /\ calls' = Dispatch(subscribed, Committed(txn))
    /\ UNCHANGED <<subscribed, crdtVars, lockVars, utilVars>>

NextCommit ==
    \/ \E kind \in Kinds : Subscribe(kind)
    \/ BeginTxn
    \/ \E branch \in Branches : TxnInsert(branch)
    \/ \E branch \in Branches, clock \in 0..MaxOps : TxnRemove(branch, clock)
    \/ CommitTxn

----------------------------------------------------------------------------
(* Root types of a store.  A branch pointer is the index of the branch in
   `branches`; a root branch carries its name, a nested branch has none. *)

\* the names the document asks root types for
Names == {"a", "b"}

TypeRefs == {"Array", "Map", "Undefined"}

\* number of branches a store allocates
MaxBranches == 3

\* length a root branch grows to
MaxBlockLen == 2

InitTypes ==
    /\ types = <<>>
    /\ branches = <<>>
    /\ node_registry = {}
    /\ returned = None

\* Branch::new
BranchNew(type_ref) ==
    [name |-> None, type_ref |-> type_ref, start |-> None, map |-> {},
     block_len |-> 0, content_len |-> 0]

\* a repair that takes the requested type reference in every case
RepairTypeRefAlways(branch, type_ref) == [branch EXCEPT !.type_ref = type_ref]

\* Branch::repair_type_ref
RepairTypeRef(branch, type_ref) ==
    IF branch.type_ref = "Undefined"
    THEN [branch EXCEPT !.type_ref = type_ref]
    ELSE branch

\* Store::get_type: the pointer of the root branch of `key`, if any
GetType(ts, key) == IF key \in DOMAIN ts THEN <<ts[key]>> ELSE None

\* Store::is_alive
IsAlive(reg, ptr) == ptr \in reg

\* a get_or_create_type that allocates a branch on every call
GetOrCreateFresh(ts, brs, reg, key, type_ref) ==
    [types |-> (key :> (Len(brs) + 1)) @@ ts,
     branches |-> Append(brs, [BranchNew(type_ref) EXCEPT !.name = <<key>>]),
     node_registry |-> reg \cup {Len(brs) + 1},
     ptr |-> Len(brs) + 1]

\* Store::get_or_create_type on the root types ts, the branches brs and the
\* node registry reg: yields the three and the pointer returned
GetOrCreate(ts, brs, reg, key, type_ref) ==
    IF key \in DOMAIN ts
    THEN [types |-> ts,
          branches |-> [brs EXCEPT ![ts[key]] = RepairTypeRef(@, type_ref)],
          node_registry |-> reg,
          ptr |-> ts[key]]
    ELSE [types |-> (key :> (Len(brs) + 1)) @@ ts,
          branches |-> Append(brs, [BranchNew(type_ref) EXCEPT !.name = <<key>>]),
          node_registry |-> reg \cup {Len(brs) + 1},
          ptr |-> Len(brs) + 1]

\* a call of get_type
CallGetType(key) ==
    /\ returned' = GetType(types, key)
    /\ UNCHANGED <<types, branches, node_registry, crdtVars, lockVars,
                   commitVars, codecVars, hashVars, linkVars>>

\* a call of get_or_create_type
CallGetOrCreateType(key, type_ref) ==
    /\ key \in DOMAIN types \/ Len(branches) < MaxBranches
    /\ \E c \in {GetOrCreate(types, branches, node_registry, key, type_ref)} :
          /\ types' = c.types
          /\ branches' = c.branches
          /\ node_registry' = c.node_registry
          /\ returned' = <<c.ptr>>
    /\ UNCHANGED <<crdtVars, lockVars, commitVars,
                   codecVars, hashVars, linkVars>>

\* Store::register of a nested branch created with its item
Register(type_ref) ==
    /\ Len(branches) < MaxBranches
    /\ branches' = Append(branches, BranchNew(type_ref))
    /\ node_registry' = node_registry \cup {Len(branches) + 1}
    /\ UNCHANGED <<types, returned, crdtVars, lockVars, commitVars,
                   codecVars, hashVars, linkVars>>

\* Store::deregister of a nested branch whose item is collected
Deregister(ptr) ==
    /\ ptr \in node_registry
    /\ branches[ptr].name = None
    /\ node_registry' = node_registry \ {ptr}
    /\ UNCHANGED <<types, branches, returned, crdtVars, lockVars, commitVars,
                   codecVars, hashVars, linkVars>>

\* an element is integrated into the root branch of `key`
GrowRoot(key) ==
    /\ key \in DOMAIN types
    /\ branches[types[key]].block_len < MaxBlockLen
    /\ branches' = [branches EXCEPT ![types[key]].block_len = @ + 1,
                                    ![types[key]].content_len = @ + 1,
                                    ![types[key]].start = <<ID(1, 0)>>]
    /\ UNCHANGED <<types, node_registry, returned, crdtVars, lockVars,
                   commitVars, codecVars, hashVars, linkVars>>

NextTypes ==
    \/ \E key \in Names : CallGetType(key)
    \/ \E key \in Names, type_ref \in TypeRefs :
          CallGetOrCreateType(key, type_ref)
    \/ \E type_ref \in TypeRefs : Register(type_ref)
    \/ \E ptr \in 1..MaxBranches : Deregister(ptr)
    \/ \E key \in Names : GrowRoot(key)

----------------------------------------------------------------------------
(* Decoding of a type reference (types/mod.rs).  The input is a sequence of
   bytes; a key is written as its length followed by its bytes, a variable
   length integer below 128 as one byte. *)

TYPE_REFS_ARRAY == 0
TYPE_REFS_MAP == 1
TYPE_REFS_TEXT == 2
TYPE_REFS_XML_ELEMENT == 3
TYPE_REFS_XML_FRAGMENT == 4
TYPE_REFS_XML_HOOK == 5
TYPE_REFS_XML_TEXT == 6
TYPE_REFS_WEAK == 7
TYPE_REFS_DOC == 9
TYPE_REFS_UNDEFINED == 15

\* the largest discriminator decoded
MaxTag == 16

\* the bytes of a payload and the length of the longest payload
PayloadBytes == {0, 1, 6}
MaxPayload == 5

Payloads == UNION {[1..n -> PayloadBytes] : n \in 0..MaxPayload}

\* the inputs of the decoder: nothing, or a discriminator and a payload
Inputs == {<<>>} \cup {<<tag>> \o p : tag \in 0..MaxTag, p \in Payloads}

InitCodec ==
    /\ input = <<>>
    /\ weak = FALSE
    /\ decoded = None

Ok(value) == [result |-> "Ok", value |-> <<value>>]
Err(error) == [result |-> error, value |-> None]

\* Decoder::read_key on the bytes buf
ReadKey(buf) ==
    IF Len(buf) = 0 \/ Len(buf) < 1 + buf[1]
    THEN Err("EndOfBuffer")
    ELSE Ok([tag |-> TYPE_REFS_XML_ELEMENT, key |-> SubSeq(buf, 2, 1 + buf[1])])

\* the arm of TYPE_REFS_WEAK: the flags, the start id and, unless the link
\* is to a single element, the end id
ReadWeak(buf) ==
    IF Len(buf) = 0 \/ Len(buf) < (IF buf[1] % 2 = 0 THEN 3 ELSE 5)
    THEN Err("EndOfBuffer")
    ELSE Ok([tag |-> TYPE_REFS_WEAK,
             is_single |-> buf[1] % 2 = 0,
             start_assoc |-> IF (buf[1] \div 2) % 2 = 1 THEN "After" ELSE "Before",
             end_assoc |-> IF (buf[1] \div 4) % 2 = 1 THEN "After" ELSE "Before",
             start_id |-> ID(buf[2], buf[3]),
             end_id |-> IF buf[1] % 2 = 0 THEN ID(buf[2], buf[3])
                        ELSE ID(buf[4], buf[5])])

\* a decoder that takes an unknown discriminator for an undefined type
DecodeTypeRefLenient(buf, weak_feature) ==
    IF Len(buf) = 0 THEN Err("EndOfBuffer")
    ELSE IF buf[1] = TYPE_REFS_XML_ELEMENT THEN ReadKey(Tail(buf))
    ELSE IF buf[1] = TYPE_REFS_WEAK /\ weak_feature THEN ReadWeak(Tail(buf))
    ELSE IF buf[1] \in {TYPE_REFS_ARRAY, TYPE_REFS_MAP, TYPE_REFS_TEXT,
                        TYPE_REFS_XML_FRAGMENT, TYPE_REFS_XML_HOOK,
                        TYPE_REFS_XML_TEXT, TYPE_REFS_DOC, TYPE_REFS_UNDEFINED}
    THEN Ok([tag |-> buf[1]])
    ELSE Ok([tag |-> TYPE_REFS_UNDEFINED])

\* <TypeRef as Decode>::decode on the bytes buf, in a build with or without
\* the feature "weak"
DecodeTypeRef(buf, weak_feature) ==
    IF Len(buf) = 0 THEN Err("EndOfBuffer")
    ELSE IF buf[1] = TYPE_REFS_XML_ELEMENT THEN ReadKey(Tail(buf))
    ELSE IF buf[1] = TYPE_REFS_WEAK /\ weak_feature THEN ReadWeak(Tail(buf))
    ELSE IF buf[1] \in {TYPE_REFS_ARRAY, TYPE_REFS_MAP, TYPE_REFS_TEXT,
                        TYPE_REFS_XML_FRAGMENT, TYPE_REFS_XML_HOOK,
                        TYPE_REFS_XML_TEXT, TYPE_REFS_DOC, TYPE_REFS_UNDEFINED}
    THEN Ok([tag |-> buf[1]])
    ELSE Err("UnexpectedValue")

\* the decoder reads the type reference of the input
Decode ==
    /\ decoded = None
    /\ decoded' = <<DecodeTypeRef(input, weak)>>
    /\ UNCHANGED <<input, weak, crdtVars, lockVars, commitVars, typeVars,
                   hashVars, linkVars>>

----------------------------------------------------------------------------
(* The hasher of client ids (utils/client_hasher.rs).  A byte has Radix
   values, a client id is a word of WordBytes bytes. *)

\* number of values of a byte
Radix == 2

\* size of a u64 in bytes
WordBytes == 8

\* the length the first assertion of write demands
AssertedLen == 16

ClientIds == 0..(Radix ^ WordBytes - 1)

\* the value of bytes, least significant byte first
RECURSIVE FromLeBytes(_)
FromLeBytes(bytes) ==
    IF Len(bytes) = 0 THEN 0
    ELSE Head(bytes) + Radix * FromLeBytes(Tail(bytes))

Reverse(seq) == [i \in 1..Len(seq) |-> seq[Len(seq) + 1 - i]]

\* u64::to_ne_bytes in the byte order of the platform
ToNeBytes(c, order) ==
    IF order = "little"
    THEN [i \in 1..WordBytes |-> (c \div (Radix ^ (i - 1))) % Radix]
    ELSE [i \in 1..WordBytes |-> (c \div (Radix ^ (WordBytes - i))) % Radix]

\* u64::from_ne_bytes in the byte order of the platform
FromNeBytes(bytes, order) ==
    IF order = "little" THEN FromLeBytes(bytes) ELSE FromLeBytes(Reverse(bytes))

\* ClientHasher::default
ClientHasherDefault == [prefix |-> 0, panicked |-> FALSE]

InitHasher ==
    /\ hasher = ClientHasherDefault
    /\ build = "release"
    /\ endian = "little"

\* ClientHasher::write: the two debug assertions are compiled into a debug
\* build only; the conversion to [u8; 8] fails for any other length and
\* its unwrap panics
Write(h, bytes, profile, order) ==
    IF profile = "debug" /\ Len(bytes) # AssertedLen
    THEN [h EXCEPT !.panicked = TRUE]
    ELSE IF profile = "debug" /\ h.prefix # 0
    THEN [h EXCEPT !.panicked = TRUE]
    ELSE IF Len(bytes) # WordBytes
    THEN [h EXCEPT !.panicked = TRUE]
    ELSE [h EXCEPT !.prefix = FromNeBytes(bytes, order)]

\* ClientHasher::finish
Finish(h) == h.prefix

\* the bytes written for a client id: the word, or the word widened to
\* the asserted length
Written(c, order) ==
    {ToNeBytes(c, order),
     ToNeBytes(c, order) \o [i \in 1..(AssertedLen - WordBytes) |-> 0]}

\* a value is hashed
HashWrite(bytes) ==
    /\ ~hasher.panicked
    /\ hasher' = Write(hasher, bytes, build, endian)
    /\ UNCHANGED <<build, endian, crdtVars, lockVars, commitVars, typeVars,
                   codecVars, linkVars>>

InitLink ==
    /\ linked = {}
    /\ linked_by = <<>>

InitUtil == InitTypes /\ InitCodec /\ InitHasher /\ InitLink

Init == InitStore /\ InitLock /\ InitCommit /\ InitUtil
    /\ InitUtil

\* the value a local insert writes: one fresh element per clock
NewContent(s, client, kind, len) ==
    IF kind = "type" THEN <<>>
    ELSE [k \in 1..len |-> ID(client, GetClock(s, client) + k - 1)]

\* a transaction of replica r that calls insert_at and commits
LocalInsert(r, branch, index, kind, len) ==
    /\ Len(updates) < MaxOps
    /\ branch \in DOMAIN store[r].seqs
    /\ index \in InsertIndexes(BranchLen(store[r], branch))
    /\ \E c \in {InsertAtIndex(store[r], r, branch, index, kind,
                                NewContent(store[r], r, kind, len), len)} :
          /\ store' = [store EXCEPT ![r] = c.store]
          /\ updates' = Append(updates,
                               [blocks |-> {Encoded(c.item)}, ds |-> {}])
          /\ applied' = [applied EXCEPT ![r] = @ \cup {Len(updates) + 1}]
    /\ UNCHANGED <<lockVars, commitVars, utilVars>>

\* a transaction of replica r that calls remove_at and commits
LocalRemove(r, branch, index, len) ==
    /\ Len(updates) < MaxOps
    /\ branch \in DOMAIN store[r].seqs
    /\ index \in RemoveIndexes(BranchLen(store[r], branch))
    /\ \E c \in {RemoveAt(store[r], branch, index, len)} :
          /\ store' = [store EXCEPT ![r] = c.store]
          /\ updates' = Append(updates, [blocks |-> {}, ds |-> c.ds])
          /\ applied' = [applied EXCEPT ![r] = @ \cup {Len(updates) + 1}]
    /\ UNCHANGED <<lockVars, commitVars, utilVars>>

\* a transaction of replica r that calls remove_at, then insert_at at the
\* same index, and commits: its update carries the block and the deletions
LocalReplace(r, branch, index, len) ==
    /\ Len(updates) < MaxOps
    /\ branch \in DOMAIN store[r].seqs
    /\ index \in RemoveIndexes(BranchLen(store[r], branch))
    /\ \E d \in {RemoveAt(store[r], branch, index, len)} :
       \E c \in {InsertAtIndex(d.store, r, branch, index, "string",
                                NewContent(d.store, r, "string", len), len)} :
          /\ store' = [store EXCEPT ![r] = c.store]
          /\ updates' = Append(updates,
                               [blocks |-> {Encoded(c.item)}, ds |-> d.ds])
          /\ applied' = [applied EXCEPT ![r] = @ \cup {Len(updates) + 1}]
    /\ UNCHANGED <<lockVars, commitVars, utilVars>>

\* the writers have committed all their transactions and hold all updates
WritersDone ==
    /\ Len(updates) = MaxOps
    /\ \A w \in Writers : applied[w] = 1..MaxOps

\* a replica that only receives joins once the writers are done: what it
\* reaches depends on the updates and their order only
MayReceive(r) == r \in Writers \/ WritersDone

\* replica r applies update i (again, if it was delivered before)
Deliver(r, i) ==
    /\ i \in 1..Len(updates)
    /\ MayReceive(r)
    /\ store' = [store EXCEPT ![r] = ApplyUpdate(@, updates[i])]
    /\ applied' = [applied EXCEPT ![r] = @ \cup {i}]
    /\ UNCHANGED <<updates, lockVars, commitVars, utilVars>>

\* replica b sends its state vector to a and applies the diff a encodes
Sync(a, b) ==
    /\ a # b
    /\ MayReceive(a) /\ MayReceive(b)
    /\ store' = [store EXCEPT ![b] =
           ApplyUpdate(@, DecodeUpdate(EncodeDiff(store[a],
                                                  GetStateVector(store[b]))))]
    /\ UNCHANGED <<updates, applied, lockVars, commitVars, utilVars>>

Next ==
    \/ \E r \in Writers, branch \in {Root} \cup (Writers \X {0, 1, 2}),
          index \in 0..8, len \in ValueLens :
          LocalInsert(r, branch, index, "string", len)
    \/ \E r \in Writers : LocalInsert(r, Root, 0, "type", 1)
    \/ \E r \in Writers : LocalInsert(r, Root, 1, "format", 1)
    \/ \E r \in Writers, branch \in {Root} \cup (Writers \X {0, 1, 2}),
          index \in 0..8, len \in RemoveLens :
          LocalRemove(r, branch, index, len)
    \/ \E r \in Writers, index \in {1}, len \in RemoveLens :
          LocalReplace(r, Root, index, len)
    \/ \E r \in Clients, i \in 1..MaxOps : Deliver(r, i)
    \/ \E a \in Clients, b \in Clients : Sync(a, b)

Spec == Init /\ [][Next]_vars

----------------------------------------------------------------------------
(* Transactions on one document *)

\* thread t, which holds no transaction, tries to open a read-only one
OpenRead(t) ==
    /\ txns[t] = "none"
    /\ LET r == TryBorrow(borrow)
       IN /\ borrow' = r.borrow
          /\ attempt' = [thread |-> t, kind |-> "read", result |-> r.result]
          /\ txns' = IF r.result = "ok" THEN [txns EXCEPT ![t] = "read"]
                     ELSE txns
    /\ UNCHANGED <<version, crdtVars, commitVars, utilVars>>

\* thread t, which holds no transaction, tries to open a mutable one
OpenWrite(t) ==
    /\ txns[t] = "none"
    /\ LET r == TryBorrowMut(borrow)
       IN /\ borrow' = r.borrow
          /\ attempt' = [thread |-> t, kind |-> "write", result |-> r.result]
          /\ txns' = IF r.result = "ok" THEN [txns EXCEPT ![t] = "write"]
                     ELSE txns
    /\ UNCHANGED <<version, crdtVars, commitVars, utilVars>>

\* the mutable transaction of thread t changes the store
Mutate(t) ==
    /\ txns[t] = "write"
    /\ version < MaxVersion
    /\ version' = version + 1
    /\ attempt' = NoAttempt
    /\ UNCHANGED <<borrow, txns, crdtVars, commitVars, utilVars>>

\* the mutable transaction of thread t commits: its observers run while
\* the transaction still holds the store
Commit(t) ==
    /\ txns[t] = "write"
    /\ txns' = [txns EXCEPT ![t] = "commit"]
    /\ attempt' = NoAttempt
    /\ UNCHANGED <<borrow, version, crdtVars, commitVars, utilVars>>

\* an observer callback of the committing transaction of thread t tries to
\* open a transaction on the same document
ObserverOpen(t, kind) ==
    /\ txns[t] = "commit"
    /\ LET r == IF kind = "read" THEN TryBorrow(borrow)
                ELSE TryBorrowMut(borrow)
       IN /\ borrow' = r.borrow
          /\ attempt' = [thread |-> t, kind |-> kind, result |-> r.result]
    /\ UNCHANGED <<txns, version, crdtVars, commitVars, utilVars>>

\* the transaction of thread t is dropped: its borrow is released
Release(t) ==
    /\ txns[t] \in {"read", "commit"}
    /\ borrow' = IF txns[t] = "read" THEN borrow - 1 ELSE 0
    /\ txns' = [txns EXCEPT ![t] = "none"]
    /\ attempt' = NoAttempt
    /\ UNCHANGED <<version, crdtVars, commitVars, utilVars>>

NextLock ==
    \/ \E t \in Threads : OpenRead(t)
    \/ \E t \in Threads : OpenWrite(t)
    \/ \E t \in Threads : Mutate(t)
    \/ \E t \in Threads : Commit(t)
    \/ \E t \in Threads, kind \in {"read", "write"} : ObserverOpen(t, kind)
    \/ \E t \in Threads : Release(t)

SpecLock == Init /\ [][NextLock]_vars

----------------------------------------------------------------------------
(* What a reader of the document observes *)

RECURSIVE Concat(_)
Concat(seqs) ==
    IF Len(seqs) = 0 THEN <<>> ELSE Head(seqs) \o Concat(Tail(seqs))

\* the live elements of a branch in sequence order; the element of a
\* nested type carries the content of that type
RECURSIVE Content(_, _)
Content(s, branch) ==
    LET items == LiveItems(s, branch)
    IN Concat([i \in 1..Len(items) |->
          IF items[i].kind = "type"
          THEN <<[value |-> items[i].id,
                  nested |-> Content(s, items[i].id)]>>
          ELSE [k \in 1..items[i].len |->
                   [value |-> items[i].content[k], nested |-> <<>>]]])

\* document content, state vector and delete set
Observable(s) ==
    [content |-> Content(s, Root),
     sv |-> GetStateVector(s),
     ds |-> DeleteSetOf(s)]

\* the deletions a store keeps for later: its pending delete set and the
\* delete sets of its parked updates
PendingDeleteSet(s) == s.pending_ds \cup UNION {p.ds : p \in s.pending}

\* the clocks of every block list ascend without gap or overlap, and no
\* block is empty
NoDuplicateBlocks(s) ==
    \A c \in Clients :
        /\ Len(s.blocks[c]) > 0 => s.blocks[c][1].id[2] = 0
        /\ \A i \in 1..Len(s.blocks[c]) : s.blocks[c][i].len > 0
        /\ \A i \in 1..(Len(s.blocks[c]) - 1) :
              s.blocks[c][i + 1].id[2] = ClockEnd(s.blocks[c][i])

LogUpdates == {updates[i] : i \in 1..Len(updates)}

\* the diff replica a encodes for the state vector of replica b
DiffFor(a, b) ==
    DecodeUpdate(EncodeDiff(store[a], GetStateVector(store[b])))

\* the updates replica r may receive: the updates of the transactions and
\* the diffs the other replicas encode for it
UpdatesFor(r) == LogUpdates \cup {DiffFor(a, r) : a \in Clients \ {r}}

\* an id is in the store or among the blocks of the update
Covered(s, u, id) == HasId(s, id) \/ \E b \in u.blocks : id \in ItemIds(b)

\* the update has a block with a missing dependency: a clock before it, an
\* origin or a parent that is neither in the store nor in the update
Missing(s, u) ==
    \E b \in u.blocks :
        /\ ~IsKnown(s, b)
        /\ \/ \E k \in 0..(b.id[2] - 1) : ~Covered(s, u, ID(b.id[1], k))
           \/ b.origin # None /\ ~Covered(s, u, b.origin)
           \/ b.right_origin # None /\ ~Covered(s, u, b.right_origin)
           \/ b.parent # Root /\ ~Covered(s, u, b.parent)

----------------------------------------------------------------------------
(* Properties of the update exchange *)

\* C1 (convergence): two replicas that have applied all the updates of the
\* transactions, in whatever order and however often, hold the same
\* document content
Convergence ==
    \A a \in Clients, b \in Clients :
        (applied[a] = 1..Len(updates) /\ applied[b] = 1..Len(updates))
            => Content(store[a], Root) = Content(store[b], Root)

\* all three replicas hold both updates, and two clients inserted
\* concurrently at the same place
ConvergenceWitness ==
    /\ Len(updates) = MaxOps
    /\ \A r \in Clients : applied[r] = 1..MaxOps
    /\ \E u1 \in LogUpdates, u2 \in LogUpdates :
          \E b1 \in u1.blocks, b2 \in u2.blocks :
              /\ b1.id[1] # b2.id[1]
              /\ b1.origin = b2.origin
              /\ b1.parent = b2.parent

StateVectorAfterDiff ==
    \A a \in Clients, b \in Clients :
        a # b =>
            LET s2 == ApplyUpdate(store[b], DiffFor(a, b))
            IN \A c \in Clients : GetClock(s2, c) >= GetClock(store[a], c)

\* a replica holds the block of an update that was never delivered to it:
\* it came with a diff
StateVectorAfterDiffWitness ==
    \E a \in Clients, b \in Clients, i \in 1..Len(updates) :
        /\ a # b
        /\ i \notin applied[b]
        /\ updates[i].blocks # {}
        /\ \A x \in updates[i].blocks : IsKnown(store[b], x)
        /\ \A c \in Clients : GetClock(store[b], c) >= GetClock(store[a], c)

PendingCompletion ==
    \A r \in Clients :
        \A u2 \in store[r].pending, u1 \in LogUpdates :
            LET s == store[r]
                s0 == [s EXCEPT !.pending = {}]
            IN (/\ s.pending = {u2}
                /\ s.pending_ds = {}
                /\ Missing(s0, u2)
                /\ ~Missing(s0, u1)
                /\ ~Missing(ApplyUpdate(s0, u1), u2))
                   => /\ ApplyUpdate(s, u1).pending = {}
                      /\ ApplyUpdate(s, u1)
                            = ApplyUpdate(ApplyUpdate(s0, u1), u2)

\* a replica received u2 before the u1 it depends on, and u2 is parked
PendingCompletionWitness ==
    \E r \in Clients, u1 \in LogUpdates :
        LET s0 == [store[r] EXCEPT !.pending = {}]
        IN /\ Cardinality(store[r].pending) = 1
           /\ store[r].pending_ds = {}
           /\ \A u2 \in store[r].pending :
                 /\ Missing(s0, u2)
                 /\ ~Missing(s0, u1)
                 /\ u1 # u2
                 /\ ~Missing(ApplyUpdate(s0, u1), u2)

\* C10 (delete monotonicity): an element that is deleted stays deleted;
\* the delete set of a replica only grows
DeleteMonotonicity ==
    [][\A r \in Clients :
          DeleteSetOf(store[r]) \subseteq DeleteSetOf(store'[r])]_vars

\* the first transaction deleted elements, the second one followed, and a
\* replica holds both with the deleted item split
DeleteMonotonicityWitness ==
    /\ Len(updates) = MaxOps
    /\ updates[1].ds # {}
    /\ \E r \in Clients :
          /\ applied[r] = 1..MaxOps
          /\ updates[1].ds \subseteq DeleteSetOf(store[r])
          /\ \E id \in updates[1].ds :
                /\ ID(id[1], id[2] + 1) \in updates[1].ds
                /\ GetItem(store[r], id).len = 1

----------------------------------------------------------------------------
(* Properties of the diff encoding *)

\* the clocks a remote state vector holds for a client
RemoteClocks == 0..2

\* the remote state vectors: any clients, any of the clocks
RemoteStateVectors ==
    UNION {[D -> RemoteClocks] : D \in SUBSET Clients}

\* a section covers exactly the clocks first..(last - 1), block after block
Covers(sec, first, last) ==
    /\ Len(sec.blocks) > 0
    /\ sec.count = Len(sec.blocks)
    /\ sec.blocks[1].id[2] = first
    /\ ClockEnd(sec.blocks[Len(sec.blocks)]) = last
    /\ \A i \in 1..Len(sec.blocks) : sec.blocks[i].id[1] = sec.client
    /\ \A i \in 1..(Len(sec.blocks) - 1) :
          sec.blocks[i + 1].id[2] = ClockEnd(sec.blocks[i])

\* C6 (diff computation): for a local state vector L and a remote state
\* vector R the encoded blocks have, for every client c with L(c) > R(c),
\* a section of c that starts at clock R(c) and covers exactly the clocks
\* R(c)..L(c)-1, and no section of a client with L(c) <= R(c)
DiffComputation ==
    \A r \in Clients, R \in RemoteStateVectors :
        LET enc == WriteBlocksFrom(store[r], R)
            L == GetStateVector(store[r])
        IN /\ enc.count = Len(enc.sections)
           /\ \A c \in Clients :
                 SvGet(L, c) > SvGet(R, c)
                     => \E i \in 1..Len(enc.sections) :
                            enc.sections[i].client = c
           /\ \A i \in 1..Len(enc.sections) :
                 LET sec == enc.sections[i]
                 IN /\ SvGet(L, sec.client) > SvGet(R, sec.client)
                    /\ sec.clock = SvGet(R, sec.client)
                    /\ Covers(sec, SvGet(R, sec.client), SvGet(L, sec.client))

\* a replica holds an item of two elements of a client whose remote clock
\* may fall inside it, and blocks of a client the remote may not know
DiffComputationWitness ==
    \E r \in Clients, c \in Clients, d \in Clients :
        /\ c # d
        /\ GetClock(store[r], d) > 0
        /\ GetClock(store[r], c) > 2
        /\ store[r].blocks[c][1].len = 2

----------------------------------------------------------------------------
(* Properties of StoreRef *)

Writing(t) == txns[t] \in {"write", "commit"}

\* C4 (readers-writer exclusion): while a mutable transaction is open no
\* other transaction, read-only or mutable, is open; when none is open
\* another read-only transaction can be opened, however many are open
ReadersWriterExclusion ==
    /\ \A t \in Threads :
          Writing(t) => \A u \in Threads \ {t} : txns[u] = "none"
    /\ (\E t \in Threads : Writing(t)) => borrow = MutBorrowed
    /\ (\A t \in Threads : ~Writing(t))
          => /\ borrow = Cardinality({t \in Threads : txns[t] = "read"})
             /\ TryBorrow(borrow).result = "ok"

\* a thread holds the mutable transaction and another thread was refused
ReadersWriterExclusionWitness ==
    \E t \in Threads :
        /\ Writing(t)
        /\ attempt.thread \in Threads \ {t}
        /\ attempt.result # "ok"

\* C5 (no blocking on conflict): an attempt to open a transaction that
\* conflicts with an open one returns its error in the same step and
\* leaves the lock and the store as they were, also when an observer
\* callback makes it during commit; an attempt without conflict succeeds
ConflictFailsFast ==
    [][/\ attempt'.kind = "read" =>
             IF borrow = MutBorrowed
             THEN /\ attempt'.result = "AlreadyBorrowedMut"
                  /\ UNCHANGED <<borrow, txns, version, store>>
             ELSE attempt'.result = "ok"
       /\ attempt'.kind = "write" =>
             IF borrow # 0
             THEN /\ attempt'.result = "AlreadyBorrowed"
                  /\ UNCHANGED <<borrow, txns, version, store>>
             ELSE attempt'.result = "ok"]_vars

\* an observer callback of a committing transaction was refused a mutable
\* transaction on the same document
ConflictFailsFastWitness ==
    /\ attempt.kind = "write"
    /\ attempt.result = "AlreadyBorrowed"
    /\ txns[attempt.thread] = "commit"

----------------------------------------------------------------------------
(* Properties of the order of a sequence *)

\* the items of the sequence of a branch, in order
ItemsOf(s, branch) ==
    [i \in 1..Len(s.seqs[branch]) |-> GetItem(s, s.seqs[branch][i])]

\* two items of different clients, the first of the smaller client, with
\* the same left origin in the same parent
SameOrigin(x, y) ==
    /\ x.id[1] < y.id[1]
    /\ x.origin = y.origin
    /\ x.parent = y.parent

\* C11 (YATA tie rule, as the integration keeps it): of two items of
\* different clients with the same left origin, the same right origin and
\* the same parent, the item of the smaller client is at the earlier
\* position, on every replica and for every order of integration
TieRule ==
    \A r \in Clients : \A branch \in DOMAIN store[r].seqs :
        \A i \in 1..Len(store[r].seqs[branch]) :
            \A j \in 1..Len(store[r].seqs[branch]) :
                (/\ SameOrigin(ItemsOf(store[r], branch)[i],
                               ItemsOf(store[r], branch)[j])
                 /\ ItemsOf(store[r], branch)[i].right_origin
                       = ItemsOf(store[r], branch)[j].right_origin)
                    => i < j

\* C11 as stated: the same for any two items of different clients with the
\* same left origin and the same parent, whatever their right origins
TieRuleAnyRightOrigin ==
    \A r \in Clients : \A branch \in DOMAIN store[r].seqs :
        \A i \in 1..Len(store[r].seqs[branch]) :
            \A j \in 1..Len(store[r].seqs[branch]) :
                SameOrigin(ItemsOf(store[r], branch)[i],
                           ItemsOf(store[r], branch)[j])
                    => i < j

\* the replica that only receives holds two items that the two writers
\* inserted concurrently after the same element and before the same element
TieRuleWitness ==
    /\ applied[3] = 1..MaxOps
    /\ Len(updates) = MaxOps
    /\ \E i \in 1..Len(store[3].seqs[Root]) :
          \E j \in 1..Len(store[3].seqs[Root]) :
              /\ SameOrigin(ItemsOf(store[3], Root)[i],
                            ItemsOf(store[3], Root)[j])
              /\ ItemsOf(store[3], Root)[i].origin # None
              /\ ItemsOf(store[3], Root)[i].right_origin
                    = ItemsOf(store[3], Root)[j].right_origin
              /\ ItemsOf(store[3], Root)[i].right_origin # None
              /\ ItemsOf(store[3], Root)[j].id[1] \in Writers

----------------------------------------------------------------------------
(* Scenario S1: concurrent inserts at the head of an empty text *)

\* the text of the root branch: the values of its live elements, in order
Text(s) == [i \in 1..Len(Content(s, Root)) |-> Content(s, Root)[i].value]

\* the update of a client's first insert of two elements at index 0
HeadInsert(client) ==
    [blocks |-> {[id |-> ID(client, 0), len |-> 2, kind |-> "string",
                  deleted |-> FALSE,
                  content |-> <<ID(client, 0), ID(client, 1)>>,
                  origin |-> None, parent |-> Root, right_origin |-> None]},
     ds |-> {}]

\* A (client 1) and B (client 2) each inserted two elements at index 0 of
\* the empty text, and each holds the blocks of both
S1Exchanged ==
    /\ Len(updates) = 2
    /\ LogUpdates = {HeadInsert(1), HeadInsert(2)}
    /\ \A r \in Writers :
          /\ GetClock(store[r], 1) = 2
          /\ GetClock(store[r], 2) = 2
          /\ GetClock(store[r], 3) = 0

\* C12 (scenario S1, with the order the integration gives): after A
\* inserted "ab" = (1,0)(1,1) and B inserted "cd" = (2,0)(2,1) at index 0
\* and they exchanged diffs, the text on both replicas is "abcd"
ScenarioS1 ==
    S1Exchanged =>
        \A r \in Writers :
            Text(store[r]) = <<ID(1, 0), ID(1, 1), ID(2, 0), ID(2, 1)>>

\* C12 as stated: the text on both replicas is "cdab"
ScenarioS1AsStated ==
    S1Exchanged =>
        \A r \in Writers :
            Text(store[r]) = <<ID(2, 0), ID(2, 1), ID(1, 0), ID(1, 1)>>

\* both inserted concurrently: each applied only its own update and got the
\* other's block from a diff
ScenarioS1Witness ==
    /\ S1Exchanged
    /\ \A r \in Writers : \A i \in applied[r] : updates[i] = HeadInsert(r)
    /\ \A r \in Writers : Len(Text(store[r])) = 4

----------------------------------------------------------------------------
(* Scenario S3: a removal concurrent with an insert inside the removed range.
   Every replica holds the text "hello world", inserted by A (client 1) as
   one block; A inserts "X" once, B (client 2) removes a range once, and the
   replicas exchange updates and diffs. *)

Hello == <<"h", "e", "l", "l", "o", " ", "w", "o", "r", "l", "d">>

HelloStore ==
    Integrate(EmptyStore,
              [id |-> ID(1, 0), len |-> Len(Hello), origin |-> None,
               right_origin |-> None, parent |-> Root, kind |-> "string",
               content |-> Hello, deleted |-> FALSE])

InitHello ==
    /\ store = [r \in Clients |-> HelloStore]
    /\ updates = <<>>
    /\ applied = [r \in Clients |-> {}]
    /\ InitLock
    /\ InitCommit
    /\ InitUtil

\* the update of a transaction that inserted the item of c
InsertUpdate(c) == [blocks |-> {Encoded(c.item)}, ds |-> {}]

\* the update of a transaction that removed the range of c
RemoveUpdate(c) == [blocks |-> {}, ds |-> c.ds]

\* A inserts "X" at the index
HelloInsert(index) ==
    /\ \A i \in 1..Len(updates) : updates[i].blocks = {}
    /\ \E c \in {InsertAtIndex(store[1], 1, Root, index, "string", <<"X">>,
                                1)} :
          /\ store' = [store EXCEPT ![1] = c.store]
          /\ updates' = Append(updates, InsertUpdate(c))
          /\ applied' = [applied EXCEPT ![1] = @ \cup {Len(updates) + 1}]
    /\ UNCHANGED <<lockVars, commitVars, utilVars>>

\* B removes len elements from the index
HelloRemove(index, len) ==
    /\ \A i \in 1..Len(updates) : updates[i].ds = {}
    /\ \E c \in {RemoveAt(store[2], Root, index, len)} :
          /\ store' = [store EXCEPT ![2] = c.store]
          /\ updates' = Append(updates, RemoveUpdate(c))
          /\ applied' = [applied EXCEPT ![2] = @ \cup {Len(updates) + 1}]
    /\ UNCHANGED <<lockVars, commitVars, utilVars>>

\* a replica applies an update of the log
HelloDeliver(r, i) ==
    /\ i \in 1..Len(updates)
    /\ store' = [store EXCEPT ![r] = ApplyUpdate(@, updates[i])]
    /\ applied' = [applied EXCEPT ![r] = @ \cup {i}]
    /\ UNCHANGED <<updates, lockVars, commitVars, utilVars>>

\* replica b applies the diff that replica a encodes for b's state vector
HelloSync(a, b) ==
    /\ a # b
    /\ store' = [store EXCEPT ![b] =
           ApplyUpdate(@, DecodeUpdate(EncodeDiff(store[a],
                                                  GetStateVector(store[b]))))]
    /\ UNCHANGED <<updates, applied, lockVars, commitVars, utilVars>>

NextHello ==
    \/ \E index \in {0, 4, Len(Hello)} : HelloInsert(index)
    \/ \E range \in {<<3, 5>>, <<0, 11>>, <<8, 5>>} :
          HelloRemove(range[1], range[2])
    \/ \E r \in Clients, i \in 1..2 : HelloDeliver(r, i)
    \/ \E a \in Clients, b \in Clients : HelloSync(a, b)

SpecHello == InitHello /\ [][NextHello]_vars

\* A inserted "X" at index 4 of "hello world", B removed 5 elements from
\* index 3 of "hello world", and both hold the changes of both
S3Exchanged ==
    /\ LogUpdates =
          {InsertUpdate(InsertAtIndex(HelloStore, 1, Root, 4, "string",
                                      <<"X">>, 1)),
           RemoveUpdate(RemoveAt(HelloStore, Root, 3, 5))}
    /\ \A r \in Writers :
          /\ HasId(store[r], ID(1, Len(Hello)))
          /\ \A id \in RemoveAt(HelloStore, Root, 3, 5).ds :
                IsDeleted(store[r], id)

\* C13 (scenario S3, with the text the operations give): after B removed
\* "lo wo" and A concurrently inserted "X" between "l" and "o", and they
\* exchanged diffs, the text on both replicas is "helXrld"
ScenarioS3 ==
    S3Exchanged =>
        \A r \in Writers :
            Text(store[r]) = <<"h", "e", "l", "X", "r", "l", "d">>

\* C13 as stated: the text on both replicas is "helXd"
ScenarioS3AsStated ==
    S3Exchanged =>
        \A r \in Writers : Text(store[r]) = <<"h", "e", "l", "X", "d">>

\* the two operations were concurrent: each of A and B applied only its own
\* update and got the other's change from a diff
ScenarioS3Witness ==
    /\ S3Exchanged
    /\ Len(updates) = 2
    /\ \A r \in Writers : Cardinality(applied[r]) = 1
    /\ \A r \in Writers : Len(Text(store[r])) = 7

----------------------------------------------------------------------------
(* Map entries: writes of the key of the root map *)

MapValues == {"A", "B"}

\* the item that branch.map holds for the key, None without one
MapEntry(s) ==
    IF Len(s.seqs[Entry]) = 0 THEN None ELSE s.seqs[Entry][Len(s.seqs[Entry])]

\* Branch::get of the key: the last value of the item of the key (as a
\* sequence of one value) unless the item is deleted, None otherwise
Get(s) ==
    IF MapEntry(s) = None
    THEN None
    ELSE IF ~GetItem(s, MapEntry(s)).deleted
    THEN <<GetItem(s, MapEntry(s)).content[
               Len(GetItem(s, MapEntry(s)).content)]>>
    ELSE None

MapStore == [EmptyStore EXCEPT !.seqs = @ @@ (Entry :> <<>>)]

InitMap ==
    /\ store = [r \in Clients |-> MapStore]
    /\ updates = <<>>
    /\ applied = [r \in Clients |-> {}]
    /\ InitLock
    /\ InitCommit
    /\ InitUtil

\* the items that the transaction of a write of the key deletes
Superseded(s) ==
    IF MapEntry(s) = None \/ IsDeleted(s, MapEntry(s))
    THEN {}
    ELSE ItemIds(GetItem(s, MapEntry(s)))

\* a replica writes a value under the key: the new item goes to the right of
\* the item of the key
MapSet(r, value) ==
    /\ Len(updates) < MaxOps
    /\ \E c \in {CreateItem(store[r], r, Entry, MapEntry(store[r]), None,
                             "string", <<value>>, 1)} :
          /\ store' = [store EXCEPT ![r] = c.store]
          /\ updates' = Append(updates,
                               [blocks |-> {Encoded(c.item)},
                                ds |-> Superseded(store[r])])
          /\ applied' = [applied EXCEPT ![r] = @ \cup {Len(updates) + 1}]
    /\ UNCHANGED <<lockVars, commitVars, utilVars>>

NextMap ==
    \/ \E r \in Writers, value \in MapValues : MapSet(r, value)
    \/ \E r \in Clients, i \in 1..MaxOps : Deliver(r, i)
    \/ \E a \in Clients, b \in Clients : Sync(a, b)

SpecMap == InitMap /\ [][NextMap]_vars

\* the items of two clients written under the key concurrently: neither has
\* the other (nor any item) to its left
ConcurrentWrites(x, y) ==
    /\ x.parent = Entry /\ y.parent = Entry
    /\ x.id[1] # y.id[1]
    /\ x.origin = None /\ y.origin = None

\* the replica holds both items and no other item of the key
HoldsBoth(s, x, y) ==
    {s.seqs[Entry][i] : i \in 1..Len(s.seqs[Entry])} = {x.id, y.id}

\* the item of the key is one of the two, the other of the two is deleted
\* and still among the blocks of its client
WinnerAndLoser(s, x, y) ==
    /\ MapEntry(s) \in {x.id, y.id}
    /\ ~IsDeleted(s, MapEntry(s))
    /\ \A z \in {x, y} :
          z.id # MapEntry(s) =>
              /\ IsDeleted(s, z.id)
              /\ \E i \in 1..Len(s.blocks[z.id[1]]) :
                    s.blocks[z.id[1]][i].id = z.id

\* C14: after two clients wrote the same key concurrently and the replicas
\* exchanged updates, any two replicas that hold these two items have the
\* same item in branch.map[key], get(key) returns the same value on both, and the
\* losing item is deleted but still in the block sequence of its client
ConcurrentMapWrites ==
    \A u \in LogUpdates, v \in LogUpdates :
        \A x \in u.blocks, y \in v.blocks :
            \A a \in Clients, b \in Clients :
                (/\ ConcurrentWrites(x, y)
                 /\ HoldsBoth(store[a], x, y)
                 /\ HoldsBoth(store[b], x, y))
                    => /\ MapEntry(store[a]) = MapEntry(store[b])
                       /\ Get(store[a]) = Get(store[b])
                       /\ Get(store[a]) # None
                       /\ WinnerAndLoser(store[a], x, y)

\* A wrote "A" and B wrote "B" concurrently; A received B's item after its
\* own and B received A's item after its own
ConcurrentMapWritesWitness ==
    /\ Len(updates) = 2
    /\ \E x \in updates[1].blocks, y \in updates[2].blocks :
          /\ ConcurrentWrites(x, y)
          /\ x.content # y.content
          /\ \A r \in Writers : HoldsBoth(store[r], x, y)
          /\ \A r \in Writers : Get(store[r]) = y.content
          /\ x.id[1] < y.id[1]

----------------------------------------------------------------------------
(* Properties of the dispatch of events *)

SpecCommit == Init /\ [][NextCommit]_vars

\* the last commit invoked a callback of the kind
Called(log, kind) == \E i \in 1..Len(log) : log[i].kind = kind

\* C15: when a transaction commits, the subscribers of update_v1 and of
\* update_v2 are invoked exactly when its delete set is not empty or its
\* after state differs from its before state
UpdateEvents ==
    [][(txn.open /\ ~txn'.open) =>
          \A kind \in {"update_v1", "update_v2"} :
              kind \in subscribed =>
                  (Called(calls', kind)
                      <=> (\/ txn'.delete_set # {}
                           \/ txn'.after_state # txn'.before_state))]_vars

\* a committed transaction that only deleted invoked the subscribers of both
UpdateEventsWitness ==
    /\ ~txn.open
    /\ txn.delete_set # {}
    /\ txn.after_state = txn.before_state
    /\ Called(calls, "update_v1")
    /\ Called(calls, "update_v2")

\* the place of a kind of callback in the order of a commit
Rank(kind) ==
    CASE kind = "observe" -> 1
      [] kind = "observe_deep" -> 2
      [] kind \in {"update_v1", "update_v2"} -> 3
      [] kind = "after_transaction" -> 4
      [] kind = "transaction_cleanup" -> 5

IsAncestor(p, q) == Len(p) < Len(q) /\ SubSeq(q, 1, Len(p)) = p

\* the events of the deep observer's call are a permutation of the events
\* collected for the changed branches, in order of non-decreasing path length
SortedPermutation(events, collected) ==
    /\ Len(events) = Len(collected)
    /\ \A e \in {collected[i] : i \in 1..Len(collected)} :
          Cardinality({i \in 1..Len(events) : events[i] = e})
             = Cardinality({i \in 1..Len(collected) : collected[i] = e})
    /\ \A i \in 1..Len(events) : \A j \in 1..Len(events) :
          i < j => Len(events[i].path) <= Len(events[j].path)

\* C17: the events handed to a deep observer are a permutation of the
\* collected events ordered by non-decreasing path length, so an event of an
\* ancestor branch precedes every event of its descendants
DeepEventsSorted ==
    \A c \in 1..Len(calls) :
        calls[c].kind = "observe_deep" =>
            /\ SortedPermutation(calls[c].events, txn.changed)
            /\ \A i \in 1..Len(calls[c].events) :
               \A j \in 1..Len(calls[c].events) :
                  IsAncestor(calls[c].events[i].path, calls[c].events[j].path)
                     => i < j

\* a deep observer got the events of a branch, of its parent and of another
\* branch, collected with the descendant first
DeepEventsSortedWitness ==
    /\ ~txn.open
    /\ Len(txn.changed) >= 3
    /\ \E i \in 1..Len(txn.changed) : \E j \in 1..Len(txn.changed) :
          /\ i < j
          /\ IsAncestor(txn.changed[j].path, txn.changed[i].path)
    /\ \E c \in 1..Len(calls) :
          /\ calls[c].kind = "observe_deep"
          /\ calls[c].events # txn.changed

----------------------------------------------------------------------------
(* Properties of the indexed operations of a branch *)

Min(a, b) == IF a < b THEN a ELSE b

\* the ids of the live countable elements of a branch, in order
LiveIds(s, branch) ==
    Concat([i \in 1..Len(LiveItems(s, branch)) |->
               [k \in 1..LiveItems(s, branch)[i].len |->
                   ID(LiveItems(s, branch)[i].id[1],
                      LiveItems(s, branch)[i].id[2] + k - 1)]])

\* the result is the content of the k-th live countable item, with the
\* offset that the lengths of the items before it leave of the index
HitsItem(items, k, index, result) ==
    /\ SumLen(SubSeq(items, 1, k - 1)) <= index
    /\ index < SumLen(SubSeq(items, 1, k))
    /\ result = <<items[k].content, index - SumLen(SubSeq(items, 1, k - 1))>>

\* C20: get_at(index) returns a result exactly when the index is below the
\* total length of the live countable items; the result is the content of
\* the live countable item that holds the position and the offset that,
\* added to the lengths of the live countable items before it, gives the
\* index; deleted and non-countable items do not count
GetAtLive ==
    \A r \in Clients : \A branch \in DOMAIN store[r].seqs :
        \A index \in 0..(BranchLen(store[r], branch) + 1) :
            IF index < BranchLen(store[r], branch)
            THEN \E k \in 1..Len(LiveItems(store[r], branch)) :
                    HitsItem(LiveItems(store[r], branch), k, index,
                             GetAt(store[r], branch, index))
            ELSE GetAt(store[r], branch, index) = None

\* get_at returns a positive offset in an item of a branch whose first item
\* is deleted
GetAtLiveWitness ==
    \E r \in Clients : \E index \in 1..3 :
        /\ GetAt(store[r], Root, index) # None
        /\ GetAt(store[r], Root, index)[2] > 0
        /\ IsDeleted(store[r], StartOf(store[r], Root))

\* the branch after an insert of the elements at the index: the elements
\* before the index in place, then the new ones, then the others
InsertedAt(before, index, new) ==
    SubSeq(before, 1, index) \o new \o SubSeq(before, index + 1, Len(before))

\* the ids of the elements of the next item of a client
NewIds(s, client, len) ==
    [k \in 1..len |-> ID(client, GetClock(s, client) + k - 1)]

\* the store after the insert holds the new value at the index
IsInsertedAt(s, client, branch, index, len, after) ==
    /\ LiveIds(after, branch)
          = InsertedAt(LiveIds(s, branch), index, NewIds(s, client, len))
    /\ GetAt(after, branch, index) = <<NewIds(s, client, len), 0>>

\* C18: in every reachable state of a branch and for every index from 0 to
\* its length, insert_at(index, value) leaves the value at position index:
\* get_at(index) returns the content of the new item, the elements before
\* the index keep their positions and the others move right by the length
InsertAtPosition ==
    \A r \in Writers : \A branch \in DOMAIN store[r].seqs :
        \A index \in 0..BranchLen(store[r], branch) :
            \A len \in ValueLens :
                IsInsertedAt(store[r], r, branch, index, len,
                             InsertAtIndex(store[r], r, branch, index,
                                           "string",
                                           NewIds(store[r], r, len),
                                           len).store)

\* the same for the indexes above 0 only, where insert_at finds the
\* neighbours of the new item with index_to_ptr
InsertAtPositionInside ==
    \A r \in Writers : \A branch \in DOMAIN store[r].seqs :
        \A index \in 1..BranchLen(store[r], branch) :
            \A len \in ValueLens :
                IsInsertedAt(store[r], r, branch, index, len,
                             InsertAtIndex(store[r], r, branch, index,
                                           "string",
                                           NewIds(store[r], r, len),
                                           len).store)

\* the ids of the elements of the range of a removal
RangeIds(ids, index, len) ==
    {ids[p] : p \in (index + 1)..Min(index + len, Len(ids))}

\* the removal deleted the elements of the range and nothing else, and
\* returned their number
IsRemovedAt(s, branch, index, len, res) ==
    /\ res.removed = Min(len, Max(0, BranchLen(s, branch) - index))
    /\ DeleteSetOf(res.store)
          = DeleteSetOf(s) \cup RangeIds(LiveIds(s, branch), index, len)
    /\ LiveIds(res.store, branch)
          = SelectSeq(LiveIds(s, branch),
                      LAMBDA id :
                          id \notin RangeIds(LiveIds(s, branch), index, len))

\* C19: on a branch with n live countable elements, remove_at(index, len)
\* deletes exactly the countable elements at the positions from index to
\* min(index + len, n), leaves every other element undeleted, countable or
\* not, and returns min(len, max(0, n - index))
RemoveAtRange ==
    \A r \in Clients : \A branch \in DOMAIN store[r].seqs :
        \A index \in 0..(BranchLen(store[r], branch) + 1) :
            \A len \in 0..3 :
                IsRemovedAt(store[r], branch, index, len,
                            RemoveAt(store[r], branch, index, len))

\* the same for the branches whose items are all countable only
RemoveAtRangeCountable ==
    \A r \in Clients : \A branch \in DOMAIN store[r].seqs :
        \A index \in 0..(BranchLen(store[r], branch) + 1) :
            \A len \in 0..3 :
                (\A i \in 1..Len(store[r].seqs[branch]) :
                    IsCountable(ItemsOf(store[r], branch)[i]))
                    => IsRemovedAt(store[r], branch, index, len,
                                   RemoveAt(store[r], branch, index, len))

----------------------------------------------------------------------------
(* The sequence iterator of a branch *)

\* Iter::next, repeated from an item: every item of the right chain
RECURSIVE IterFrom(_, _)
IterFrom(s, ptr) ==
    IF ptr = None
    THEN <<>>
    ELSE <<GetItem(s, ptr)>> \o IterFrom(s, RightOf(s, ptr))

\* Branch::iter: the items that the iterator of the branch yields
Iter(s, branch) == IterFrom(s, StartOf(s, branch))

\* C21: the iterator of a branch yields no deleted item and yields every
\* live item of the sequence once, in the order of the sequence
IterSkipsDeleted ==
    \A r \in Clients : \A branch \in DOMAIN store[r].seqs :
        Iter(store[r], branch)
           = SelectSeq(ItemsOf(store[r], branch), LAMBDA it : ~it.deleted)

----------------------------------------------------------------------------
(* Paths of nested branches.  The root map holds, under its key, an array
   of client 3 with two elements; the writers insert texts, nested types and
   removals below it. *)

PathStore ==
    Integrate(Integrate(MapStore,
                        [id |-> ID(3, 0), len |-> 1, origin |-> None,
                         right_origin |-> None, parent |-> Entry,
                         kind |-> "type", content |-> <<>>,
                         deleted |-> FALSE]),
              [id |-> ID(3, 1), len |-> 2, origin |-> None,
               right_origin |-> None, parent |-> ID(3, 0), kind |-> "string",
               content |-> <<ID(3, 1), ID(3, 2)>>, deleted |-> FALSE])

InitPath ==
    /\ store = [r \in Clients |-> PathStore]
    /\ updates = <<>>
    /\ applied = [r \in Clients |-> {}]
    /\ InitLock
    /\ InitCommit
    /\ InitUtil

NextPath ==
    \/ \E r \in Writers, branch \in Clients \X (0..3), index \in 0..4,
          kind \in {"string", "type"} :
          LocalInsert(r, branch, index, kind, 1)
    \/ \E r \in Writers, branch \in Clients \X (0..3), index \in 0..4 :
          LocalRemove(r, branch, index, 1)
    \/ \E r \in Clients, i \in 1..MaxOps : Deliver(r, i)
    \/ \E a \in Clients, b \in Clients : Sync(a, b)

SpecPath == InitPath /\ [][NextPath]_vars

\* PathSegment::Key and PathSegment::Index
KeySegment(key) == [key |-> <<key>>, index |-> 0]
IndexSegment(i) == [key |-> <<>>, index |-> i]

\* the branch that holds an item: the root for an item under the map key
BranchOf(item) == IF item.parent = Entry THEN Root ELSE item.parent

\* an index loop that counts the deleted items too
RECURSIVE IndexLoopAny(_, _, _, _)
IndexLoopAny(s, ptr, id, i) ==
    IF ptr = None \/ ptr = id
    THEN i
    ELSE IF IsCountable(GetItem(s, ptr))
    THEN IndexLoopAny(s, RightOf(s, ptr), id, i + GetItem(s, ptr).len)
    ELSE IndexLoopAny(s, RightOf(s, ptr), id, i)

\* Branch::path, the inner loop: the lengths of the live countable items
\* from ptr up to the item of the id
RECURSIVE IndexLoop(_, _, _, _)
IndexLoop(s, ptr, id, i) ==
    IF ptr = None \/ ptr = id
    THEN i
    ELSE IF ~GetItem(s, ptr).deleted /\ IsCountable(GetItem(s, ptr))
    THEN IndexLoop(s, RightOf(s, ptr), id, i + GetItem(s, ptr).len)
    ELSE IndexLoop(s, RightOf(s, ptr), id, i)

\* the segment of the item that embeds a branch
Segment(s, item) ==
    IF item.parent = Entry
    THEN KeySegment("key")
    ELSE IndexSegment(IndexLoop(s, StartOf(s, item.parent), item.id, 0))

\* Branch::path, the outer loop from the child upwards
RECURSIVE PathLoop(_, _, _, _)
PathLoop(s, from, child, path) ==
    IF child = Root \/ child = from
    THEN path
    ELSE PathLoop(s, from, BranchOf(GetItem(s, child)),
                  <<Segment(s, GetItem(s, child))>> \o path)

Path(s, from, to) == PathLoop(s, from, to, <<>>)

\* the number of nesting levels of a branch below the root
RECURSIVE Depth(_, _)
Depth(s, b) == IF b = Root THEN 0 ELSE 1 + Depth(s, BranchOf(GetItem(s, b)))

\* the ancestor of a branch the given number of levels above it
RECURSIVE AncestorAt(_, _, _)
AncestorAt(s, b, levels) ==
    IF levels = 0
    THEN b
    ELSE AncestorAt(s, BranchOf(GetItem(s, b)), levels - 1)

\* the live countable items that precede an item in the sequence of its
\* parent
LiveBefore(s, item) ==
    SelectSeq(SubSeq(ItemsOf(s, item.parent), 1,
                     PosOf(s.seqs[item.parent], item.id) - 1),
              LAMBDA it : ~it.deleted /\ IsCountable(it))

\* the segment that the claim gives for the item that embeds a branch
SegmentOf(s, item) ==
    IF item.parent = Entry
    THEN KeySegment("key")
    ELSE IndexSegment(SumLen(LiveBefore(s, item)))

\* C22: for a branch b nested k levels below an ancestor a, path(a, b) has
\* k segments, one per level from a down to b: the key for an embedding item
\* under a map entry, otherwise the total length of the live countable items
\* before the embedding item in the sequence of its parent
PathSegments ==
    \A r \in Clients : \A b \in DOMAIN store[r].seqs \ {Entry} :
        \A k \in 0..Depth(store[r], b) :
            /\ Len(Path(store[r], AncestorAt(store[r], b, k), b)) = k
            /\ \A i \in 1..k :
                  Path(store[r], AncestorAt(store[r], b, k), b)[i]
                     = SegmentOf(store[r],
                                 GetItem(store[r],
                                         AncestorAt(store[r], b, k - i)))

\* a text in the array under the key of the root map has the path
\* [key, index] from the root, with a positive index and a deleted element
\* before the text in the array
PathSegmentsWitness ==
    \E r \in Clients : \E b \in DOMAIN store[r].seqs \ {Entry} :
        /\ Depth(store[r], b) = 2
        /\ Len(Path(store[r], Root, b)) = 2
        /\ Path(store[r], Root, b)[1] = KeySegment("key")
        /\ Path(store[r], Root, b)[2].index > 0
        /\ \E i \in 1..(PosOf(store[r].seqs[ID(3, 0)], b) - 1) :
              ItemsOf(store[r], ID(3, 0))[i].deleted

----------------------------------------------------------------------------
(* Block lists under splits *)

\* the length of the strings the slices are cut from
SliceLen == 3

\* Item::splice followed by blocks.insert(i + 1, new): cuts the item that
\* starts at `id` at `offset` and puts the right piece behind cell i
SpliceBehind(s, id, offset, i) ==
    LET bl == s.blocks[id[1]]
        k == FindPivot(bl, id[2])
        item == bl[k]
        l == [item EXCEPT !.len = offset,
                          !.content = SubSeq(item.content, 1, offset)]
        r == [item EXCEPT !.id = ID(id[1], id[2] + offset),
                          !.len = item.len - offset,
                          !.origin = ID(id[1], id[2] + offset - 1),
                          !.content = SubSeq(item.content, offset + 1, item.len)]
        seq == s.seqs[item.parent]
    IN [s EXCEPT !.blocks[id[1]] = InsertAt([bl EXCEPT ![k] = l], i, r),
                 !.seqs[item.parent] = InsertAt(seq, PosOf(seq, id), r.id)]

\* the second half of Store::materialize: splits on the right side unless
\* the slice ends with the item; i is the cell of the item
MaterializeRight(s, ptr, len, i) ==
    IF len = GetItem(s, ptr).len THEN s ELSE SpliceBehind(s, ptr, len, i)

\* a materialize that keeps the cell index of the left split
MaterializeStale(s, id, start, end) ==
    IF start = 0
    THEN MaterializeRight(s, id, end + 1,
                          FindPivot(s.blocks[id[1]], id[2] + end))
    ELSE MaterializeRight(
             SpliceBehind(s, id, start, FindPivot(s.blocks[id[1]], id[2] + start)),
             ID(id[1], id[2] + start), end - start + 1,
             FindPivot(s.blocks[id[1]], id[2] + start))

\* Store::materialize of the slice [start, end] of the item that starts at
\* `id`: splits the item along the offsets of the slice
Materialize(s, id, start, end) ==
    IF start = 0
    THEN MaterializeRight(s, id, end + 1,
                          FindPivot(s.blocks[id[1]], id[2] + end))
    ELSE MaterializeRight(
             SpliceBehind(s, id, start, FindPivot(s.blocks[id[1]], id[2] + start)),
             ID(id[1], id[2] + start), end - start + 1,
             FindPivot(s.blocks[id[1]], id[2] + start) + 1)

\* the pointer Store::materialize returns: the item of the slice when the
\* slice starts with it, else the cell behind the cell that was cut, in
\* the store s2 that results from s
MaterializePtr(s, s2, id, start) ==
    IF start = 0 THEN id
    ELSE s2.blocks[id[1]][FindPivot(s.blocks[id[1]], id[2]) + 1].id

\* replica r materializes a slice of one of its items
MaterializeSlice(r, c, k, start, end) ==
    /\ MayReceive(r)
    /\ k \in 1..Len(store[r].blocks[c])
    /\ start <= end
    /\ end < store[r].blocks[c][k].len
    /\ end - start + 1 < store[r].blocks[c][k].len
    /\ store' = [store EXCEPT ![r] =
                    Materialize(@, store[r].blocks[c][k].id, start, end)]
    /\ UNCHANGED <<updates, applied, lockVars, commitVars, utilVars>>

NextSplit ==
    \/ \E r \in Writers, index \in 0..(2 * SliceLen) :
          LocalInsert(r, Root, index, "string", SliceLen)
    \/ \E r \in Writers, index \in 0..(2 * SliceLen) :
          LocalRemove(r, Root, index, 1)
    \/ \E r \in Writers, c \in Writers, k \in 1..MaxOps,
          start \in 0..(SliceLen - 1), end \in 0..(SliceLen - 1) :
          MaterializeSlice(r, c, k, start, end)
    \/ \E r \in Clients, i \in 1..MaxOps : Deliver(r, i)

SpecSplit == Init /\ [][NextSplit]_vars

\* the cells of a block list ascend from clock 0 without gap or overlap
Gapless(bl) ==
    /\ Len(bl) > 0 => bl[1].id[2] = 0
    /\ \A i \in 1..(Len(bl) - 1) : bl[i + 1].id[2] = ClockEnd(bl[i])
    /\ \A i \in 1..Len(bl), j \in 1..Len(bl) :
          i < j => ClockEnd(bl[i]) <= bl[j].id[2]

\* C23: in every reachable state, after local inserts, removals, splits
\* (index_to_ptr, remove_at, materialize) and remote integrations, the
\* block list of each client is sorted by clock and covers the clocks from
\* 0 to the next clock exactly: the first cell starts at 0, each cell starts
\* where the previous one ends, no two cells overlap
BlocksGapless ==
    \A r \in Clients : \A c \in Clients : Gapless(store[r].blocks[c])

\* a replica holds a string cut into three cells by one materialize, and a
\* replica holds an item split by a removal
BlocksGaplessWitness ==
    /\ \E r \in Clients : \E c \in Clients :
          /\ Len(store[r].blocks[c]) >= 3
          /\ \A i \in 1..3 : store[r].blocks[c][i].len = 1
                             /\ ~store[r].blocks[c][i].deleted
    /\ \E r \in Clients : \E c \in Clients : \E i \in 1..Len(store[r].blocks[c]) :
          /\ store[r].blocks[c][i].deleted
          /\ store[r].blocks[c][i].origin = ID(c, store[r].blocks[c][i].id[2] - 1)
          /\ store[r].blocks[c][i].id[2] > 0
----------------------------------------------------------------------------
(* Root types are created on first use *)

SpecTypes == Init /\ [][NextTypes]_vars

\* the pointers of the branches that carry the name `key`
Named(brs, key) == {p \in 1..Len(brs) : brs[p].name = <<key>>}

\* what a first get_or_create_type does: one more branch, which carries the
\* name, is the root of the name, is alive and is returned
CreatesOne(key, c) ==
    /\ Len(c.branches) = Len(branches) + 1
    /\ SubSeq(c.branches, 1, Len(branches)) = branches
    /\ c.ptr = Len(branches) + 1
    /\ c.branches[c.ptr].name = <<key>>
    /\ c.branches[c.ptr].block_len = 0
    /\ GetType(c.types, key) = <<c.ptr>>
    /\ IsAlive(c.node_registry, c.ptr)
    /\ Cardinality(DOMAIN c.types) = Cardinality(DOMAIN types) + 1

\* what a later get_or_create_type does: returns the root of the name and
\* leaves the roots, their number and the content of the branch alone
ReturnsSame(key, c) ==
    /\ c.ptr = types[key]
    /\ c.types = types
    /\ Len(c.branches) = Len(branches)
    /\ c.branches[c.ptr].block_len = branches[c.ptr].block_len
    /\ c.branches[c.ptr].name = branches[c.ptr].name
    /\ c.node_registry = node_registry

----------------------------------------------------------------------------
(* Snapshot encoding of src/yrs/src/store.rs *)

\* ItemSlice::trim_end: the item without its last n elements
TrimEnd(item, n) ==
    IF n <= 0 THEN item
    ELSE [item EXCEPT !.len = item.len - n,
                      !.content = SubSeq(item.content, 1, item.len - n)]

\* one client section of write_blocks_to: the blocks from clock 0 up to the
\* block that holds clock - 1, which is cut behind that clock; find_pivot
\* finds no cell for clock 0 and the unwrap of its result panics
ClipSection(s, client, clock) ==
    LET blocks == s.blocks[client]
        bound == Min(clock, GetClock(s, client) + 1)
        last_idx == FindPivot(blocks, bound - 1)
    IN IF last_idx = 0
       THEN [panic |-> TRUE, count |-> 0, client |-> client, clock |-> 0,
             blocks |-> <<>>]
       ELSE [panic |-> FALSE,
             count |-> last_idx,
             client |-> client,
             clock |-> 0,
             blocks |-> [i \in 1..(last_idx - 1) |-> Encoded(blocks[i])]
                        \o <<Encoded(TrimEnd(blocks[last_idx],
                                 ClockEnd(blocks[last_idx]) - bound))>>]

\* the loop over the snapshot state map: the (client, clock) pairs of the
\* clients the store has blocks of
RECURSIVE ClipDiff(_, _, _)
ClipDiff(local_sv, sv, clients) ==
    IF Len(clients) = 0 THEN <<>>
    ELSE (IF Head(clients) \in DOMAIN local_sv
          THEN <<<<Head(clients),
                   Min(sv[Head(clients)], SvGet(local_sv, Head(clients)))>>>>
          ELSE <<>>)
         \o ClipDiff(local_sv, sv, Tail(clients))

\* the sections of write_blocks_to in the order they are written
ClipSections(s, diff) ==
    [i \in 1..Len(diff) |-> ClipSection(s, diff[i][1], diff[i][2])]

\* Store::write_blocks_to: the count of sections and the sections, clients
\* descending; panic when a section does
WriteBlocksTo(s, sv) ==
    [panic |-> \E c \in DOMAIN sv \cap DOMAIN GetStateVector(s) :
                   ClipSection(s, c, Min(sv[c], GetClock(s, c))).panic,
     count |-> Cardinality(DOMAIN sv \cap DOMAIN GetStateVector(s)),
     sections |-> ClipSections(s, SortDescending(
                      ClipDiff(GetStateVector(s), sv, Ascending(DOMAIN sv))))]

\* Store::encode_state_from_snapshot: the result and what the encoder holds
EncodeStateFromSnapshot(s, skip_gc, snapshot) ==
    IF ~skip_gc
    THEN [result |-> "Gc", written |-> None]
    ELSE IF WriteBlocksTo(s, snapshot.state_map).panic
    THEN [result |-> "panic", written |-> None]
    ELSE [result |-> "Ok",
          written |-> <<[blocks |-> WriteBlocksTo(s, snapshot.state_map),
                         ds |-> snapshot.delete_set]>>]

\* the snapshots: any state map, with or without a deleted element
Snapshots(maps) ==
    [state_map : maps, delete_set : {{}, {ID(3, 0)}}]

\* the state maps without a clock 0
PositiveMaps == {S \in RemoteStateVectors : \A c \in DOMAIN S : S[c] > 0}

\* the result of encode_state_from_snapshot over a set of state maps: the
\* GC error and nothing written when skip_gc is false, success otherwise
GcError(maps) ==
    \A r \in Clients, snapshot \in Snapshots(maps) :
        /\ EncodeStateFromSnapshot(store[r], FALSE, snapshot).result = "Gc"
        /\ EncodeStateFromSnapshot(store[r], FALSE, snapshot).written = None
        /\ EncodeStateFromSnapshot(store[r], TRUE, snapshot).result = "Ok"

\* C25: encode_state_from_snapshot returns the GC error exactly when the
\* store has GC enabled (skip_gc is false), and then nothing is written;
\* when skip_gc is true it returns success for every snapshot
GcErrorExactly == GcError(RemoteStateVectors)

\* the same for the snapshots without a clock 0
GcErrorPositive == GcError(PositiveMaps)

\* a section covers exactly the clocks 0..(last - 1), block after block; no
\* block when last is 0
Clipped(sec, last) ==
    /\ ~sec.panic
    /\ sec.clock = 0
    /\ sec.count = Len(sec.blocks)
    /\ last = 0 => Len(sec.blocks) = 0
    /\ last > 0 => /\ Len(sec.blocks) > 0
                   /\ sec.blocks[1].id[2] = 0
                   /\ ClockEnd(sec.blocks[Len(sec.blocks)]) = last
    /\ \A i \in 1..Len(sec.blocks) : sec.blocks[i].id[1] = sec.client
    /\ \A i \in 1..(Len(sec.blocks) - 1) :
          sec.blocks[i + 1].id[2] = ClockEnd(sec.blocks[i])

\* the sections of the encoded snapshot that belong to client c
SectionsOf(enc, c) == {i \in 1..Len(enc.sections) : enc.sections[i].client = c}

\* the clipping of the snapshots over a set of state maps
Clips(maps) ==
    \A r \in Clients, snapshot \in Snapshots(maps) :
        /\ EncodeStateFromSnapshot(store[r], TRUE, snapshot).result = "Ok"
        /\ EncodeStateFromSnapshot(store[r], TRUE, snapshot).written[1].ds
              = snapshot.delete_set
        /\ \A c \in Clients :
              IF c \in DOMAIN snapshot.state_map
                     \cap DOMAIN GetStateVector(store[r])
              THEN /\ Cardinality(SectionsOf(
                          WriteBlocksTo(store[r], snapshot.state_map), c)) = 1
                   /\ \A i \in SectionsOf(
                          WriteBlocksTo(store[r], snapshot.state_map), c) :
                          Clipped(WriteBlocksTo(store[r], snapshot.state_map)
                                      .sections[i],
                                  Min(snapshot.state_map[c],
                                      GetClock(store[r], c)))
              ELSE SectionsOf(WriteBlocksTo(store[r], snapshot.state_map), c)
                       = {}

\* C26 (snapshot clipping): for every snapshot state map S, with any clocks
\* S(c) >= 0, and local state vector L the snapshot encoder writes for each
\* client c in both S and L one section that starts at clock 0 and covers
\* exactly the clocks below min(S(c), L(c)), the last block cut at that
\* bound; a client missing from S or from the store gets no section; the
\* delete set of the snapshot is written unchanged
SnapshotClipping == Clips(RemoteStateVectors)

\* the same for the snapshots without a clock 0
SnapshotClippingPositive == Clips(PositiveMaps)

\* the clients of the sections descend strictly
Descends(sections) ==
    \A i \in 1..(Len(sections) - 1) :
        sections[i].client > sections[i + 1].client

\* the order and the count of the sections of the diffs and the snapshots
\* over a set of state vectors
SectionOrder(maps) ==
    \A r \in Clients, sv \in maps :
        /\ WriteBlocksFrom(store[r], sv).count
              = Len(WriteBlocksFrom(store[r], sv).sections)
        /\ Descends(WriteBlocksFrom(store[r], sv).sections)
        /\ ~WriteBlocksTo(store[r], sv).panic =>
              /\ WriteBlocksTo(store[r], sv).count
                    = Len(WriteBlocksTo(store[r], sv).sections)
              /\ Descends(WriteBlocksTo(store[r], sv).sections)

\* C30: in every encoded diff and every encoded snapshot the client
\* sections are written in strictly descending order of client ID, and the
\* section count written first equals the number of sections that follow
SectionsDescending == SectionOrder(RemoteStateVectors)

\* the same for the state vectors without a clock 0
SectionsDescendingPositive == SectionOrder(PositiveMaps)
----------------------------------------------------------------------------
(* Unknown type references are rejected *)

InitDecode ==
    /\ InitStore /\ InitLock /\ InitCommit /\ InitTypes /\ InitHasher
    /\ InitLink
    /\ input \in Inputs
    /\ weak \in BOOLEAN
    /\ decoded = None

NextDecode == Decode

SpecDecode == InitDecode /\ [][NextDecode]_vars

\* the discriminators of a build
KnownTags(weak_feature) ==
    (0..6) \cup {9, 15} \cup (IF weak_feature THEN {7} ELSE {})

\* the payload of a known discriminator is complete
WellFormed(buf, weak_feature) ==
    /\ buf[1] = 3 => Len(buf) >= 2 /\ Len(buf) >= 2 + buf[2]
    /\ buf[1] = 7 /\ weak_feature =>
          Len(buf) >= 2 /\ Len(buf) >= (IF buf[2] % 2 = 0 THEN 4 ELSE 6)

\* C27: decoding a type reference whose discriminator is not a known tag
\* (0 to 7, 9 or 15, with 7 known only when the feature "weak" is on)
\* returns an error value and no TypeRef; decoding a known tag never returns
\* that error for a well-formed payload
UnknownTypeRefRejected ==
    decoded # None /\ Len(input) > 0 =>
        IF input[1] \notin KnownTags(weak)
        THEN decoded[1].result = "UnexpectedValue" /\ decoded[1].value = None
        ELSE WellFormed(input, weak) =>
                 /\ decoded[1].result = "Ok"
                 /\ decoded[1].value # None
                 /\ decoded[1].value[1].tag = input[1]

\* a build without the feature "weak" has rejected the discriminator of a
\* weak link, whose payload was complete
UnknownTypeRefRejectedWitness ==
    /\ decoded # None
    /\ Len(input) = 4
    /\ input[1] = 7
    /\ ~weak
    /\ decoded[1].result = "UnexpectedValue"

----------------------------------------------------------------------------
(* The hasher of client ids is the identity *)

InitHash ==
    /\ InitStore /\ InitLock /\ InitCommit /\ InitTypes /\ InitCodec
    /\ InitLink
    /\ hasher = ClientHasherDefault
    /\ build \in {"debug", "release"}
    /\ endian \in {"little", "big"}

NextHash == \E c \in ClientIds : \E bytes \in Written(c, endian) : HashWrite(bytes)

SpecHash == InitHash /\ [][NextHash]_vars

\* a fresh hasher that receives the bytes of c passes its assertions and
\* finishes with c
Identity(c) ==
    /\ ~Write(ClientHasherDefault, ToNeBytes(c, endian), build, endian).panicked
    /\ Finish(Write(ClientHasherDefault, ToNeBytes(c, endian), build, endian)) = c

\* C28: the client hasher is the identity on client ids: for every client
\* id c a fresh ClientHasher that receives one write of the 8 bytes of c in
\* native byte order passes its assertions, and finish() returns c
HasherIdentity == \A c \in ClientIds : Identity(c)

\* the same in a build without debug assertions
HasherIdentityRelease == build = "release" => \A c \in ClientIds : Identity(c)
----------------------------------------------------------------------------
(* Resolution of an index to a pair of pointers *)

\* the pair (left, right) that res holds for the index: left is a live
\* countable item that ends with the element before the index, right is
\* its right neighbour, and the elements of the branch are those of before
Anchors(res, branch, index, before) ==
    /\ res.left # None
    /\ HasId(res.store, res.left)
    /\ GetItem(res.store, res.left).id = res.left
    /\ ~GetItem(res.store, res.left).deleted
    /\ IsCountable(GetItem(res.store, res.left))
    /\ LiveIds(res.store, branch) = before
    /\ LastId(GetItem(res.store, res.left)) = before[index]
    /\ res.right = RightOf(res.store, res.left)

\* the index is at the end of a live countable item of the branch
AtItemEnd(s, branch, index) ==
    \E k \in 1..Len(LiveItems(s, branch)) :
        SumLen(SubSeq(LiveItems(s, branch), 1, k)) = index

----------------------------------------------------------------------------
(* The delete set of a diff *)

\* every element a store holds
StoredIds(s) ==
    {id \in Clients \X (0..8) : HasId(s, id)}

\* C31: the delete set written by encode_diff(sv) is the complete delete
\* set of the local block store, every deleted clock of every client,
\* whatever the remote state vector is; it is not restricted to the blocks
\* of the diff, so the deletion of a block the remote holds is transmitted
DeleteSetComplete ==
    \A r \in Clients, R \in RemoteStateVectors :
        EncodeDiff(store[r], R).ds
            = {id \in StoredIds(store[r]) : GetItem(store[r], id).deleted}

\* a replica holds a deleted element, and a remote state vector covers it,
\* so no block of the diff holds it
DeleteSetCompleteWitness ==
    \E r \in Clients, R \in RemoteStateVectors :
        \E id \in StoredIds(store[r]) :
            /\ GetItem(store[r], id).deleted
            /\ SvGet(R, id[1]) > id[2]
            /\ id \in EncodeDiff(store[r], R).ds
            /\ \A b \in DecodeUpdate(EncodeDiff(store[r], R)).blocks :
                  id \notin ItemIds(b)
----------------------------------------------------------------------------
(* One section per client *)

\* no two entries of a diff are of the same client
OnePerClient(diff) ==
    \A i \in 1..Len(diff), j \in 1..Len(diff) :
        diff[i][1] = diff[j][1] => i = j

\* the entries of the diffs and the sections written for them, over a set
\* of remote state vectors
OneSection(maps) ==
    \A r \in Clients, R \in maps :
        /\ OnePerClient(DiffStateVectors(GetStateVector(store[r]), R))
        /\ \A i \in 1..Len(WriteBlocksFrom(store[r], R).sections),
              j \in 1..Len(WriteBlocksFrom(store[r], R).sections) :
              WriteBlocksFrom(store[r], R).sections[i].client
                  = WriteBlocksFrom(store[r], R).sections[j].client => i = j

\* C32: for every local and every remote state vector, a remote vector
\* with an explicit entry of clock 0 for a client the local store knows
\* included, the diff computed by diff_state_vectors holds at most one
\* entry per client, so the blocks of each client are written in at most
\* one section of the encoded diff
OneSectionPerClient == OneSection(RemoteStateVectors)

\* the same for the remote state vectors without a clock 0
OneSectionPerClientPositive == OneSection(PositiveMaps)
----------------------------------------------------------------------------
(* The pieces of a materialized slice *)

\* the cells of bl from cell k on that lie below the clock `last`
Pieces(bl, k, last) ==
    SelectSeq(SubSeq(bl, k, Len(bl)), LAMBDA b : b.id[2] < last)

\* the slice [start, end] of cell k was cut out of the block list before:
\* the cell returned covers the slice, the list grew by the cuts that were
\* needed, the pieces follow each other in the place of the cell and hold
\* its content in order, and the other cells are as they were
CutOut(before, after, k, start, end, ptr) ==
    /\ ptr = ID(before[k].id[1], before[k].id[2] + start)
    /\ \E i \in 1..Len(after) :
          /\ after[i].id = ptr
          /\ after[i].len = end - start + 1
    /\ Len(after) = Len(before) + (IF start > 0 THEN 1 ELSE 0)
                       + (IF end < before[k].len - 1 THEN 1 ELSE 0)
    /\ SubSeq(after, 1, k - 1) = SubSeq(before, 1, k - 1)
    /\ SubSeq(after, k + 1 + Len(after) - Len(before), Len(after))
          = SubSeq(before, k + 1, Len(before))
    /\ after[k].id = before[k].id
    /\ \A i \in k..(k + Len(after) - Len(before) - 1) :
          /\ after[i + 1].id[2] = ClockEnd(after[i])
          /\ after[i + 1].origin = LastId(after[i])
    /\ ClockEnd(after[k + Len(after) - Len(before)]) = ClockEnd(before[k])
    /\ Concat([i \in 1..(Len(after) - Len(before) + 1) |->
                  after[k + i - 1].content]) = before[k].content

\* C33: materialize of a slice with inclusive offsets start <= end < n of an
\* item with the clocks c..c+n-1 returns an item with exactly the clocks
\* c+start..c+end: it splits on the left only when start > 0 and on the
\* right only when end < n-1, inserts each new piece directly behind the
\* piece it was cut from in the block list of the client, and the pieces
\* together cover the clocks of the item with its content in order
MaterializeSlices ==
    \A r \in Clients, c \in Clients :
        \A k \in 1..Len(store[r].blocks[c]) :
            \A start \in 0..(store[r].blocks[c][k].len - 1) :
                \A end \in start..(store[r].blocks[c][k].len - 1) :
                    CutOut(store[r].blocks[c],
                           Materialize(store[r], store[r].blocks[c][k].id,
                                       start, end).blocks[c],
                           k, start, end,
                           MaterializePtr(store[r],
                               Materialize(store[r], store[r].blocks[c][k].id,
                                           start, end),
                               store[r].blocks[c][k].id, start))

\* a replica holds a string in one cell and another replica holds it cut
\* on both sides of its second element
MaterializeSlicesWitness ==
    \E a \in Clients, b \in Clients, c \in Clients :
        \E k \in 1..Len(store[a].blocks[c]) :
            /\ store[a].blocks[c][k].len = SliceLen
            /\ \E i \in 1..Len(store[b].blocks[c]) :
                  /\ store[b].blocks[c][i].id
                        = ID(c, store[a].blocks[c][k].id[2] + 1)
                  /\ store[b].blocks[c][i].len = 1
                  /\ store[b].blocks[c][i].origin = store[a].blocks[c][k].id
                  /\ i > 1
                  /\ store[b].blocks[c][i - 1].id = store[a].blocks[c][k].id
----------------------------------------------------------------------------
(* Links of the pieces of a materialized slice.  The store is that of
   replica 1; a branch that links an item is named by a number. *)

\* the branches that hold weak links
Linkers == {1, 2}

\* the links materialize takes along: those of the item, if its info says
\* it is linked and linked_by has an entry for it
LinksOf(flagged, lb, id) ==
    IF id \in flagged /\ id \in DOMAIN lb THEN <<lb[id]>> ELSE None

\* linked_by.entry(new).or_default().extend(source), when a piece was cut
\* and there are links
Extend(cut, lb, new, links) ==
    IF ~cut \/ links = None THEN lb
    ELSE [x \in DOMAIN lb \cup {new} |->
             (IF x \in DOMAIN lb THEN lb[x] ELSE {})
             \cup (IF x = new THEN links[1] ELSE {})]

\* a materialize that takes the links along on the left side only
MaterializeLinksLeft(lb, links, id, start, end, len) ==
    Extend(start > 0, lb, ID(id[1], id[2] + start), links)

\* linked_by after Store::materialize of the slice [start, end] of the item
\* of length len that starts at id
MaterializeLinks(lb, links, id, start, end, len) ==
    Extend(end < len - 1,
           Extend(start > 0, lb, ID(id[1], id[2] + start), links),
           ID(id[1], id[2] + end + 1), links)

\* a branch takes a weak link to an item of replica 1
LinkItem(c, k, branch) ==
    /\ k \in 1..Len(store[1].blocks[c])
    /\ linked' = linked \cup {store[1].blocks[c][k].id}
    /\ linked_by' = Extend(TRUE, linked_by, store[1].blocks[c][k].id,
                           <<{branch}>>)
    /\ UNCHANGED <<crdtVars, lockVars, commitVars, typeVars, codecVars,
                   hashVars>>

\* replica 1 materializes a slice of one of its items; a piece has the
\* info of the item it is cut from
MaterializeLinked(c, k, start, end) ==
    /\ k \in 1..Len(store[1].blocks[c])
    /\ start <= end
    /\ end < store[1].blocks[c][k].len
    /\ end - start + 1 < store[1].blocks[c][k].len
    /\ store' = [store EXCEPT ![1] =
                    Materialize(@, store[1].blocks[c][k].id, start, end)]
    /\ linked_by' = MaterializeLinks(linked_by,
                        LinksOf(linked, linked_by, store[1].blocks[c][k].id),
                        store[1].blocks[c][k].id, start, end,
                        store[1].blocks[c][k].len)
    /\ linked' = IF store[1].blocks[c][k].id \in linked
                 THEN linked \cup {ID(c, store[1].blocks[c][k].id[2] + start),
                                   ID(c, store[1].blocks[c][k].id[2] + end + 1)}
                 ELSE linked
    /\ UNCHANGED <<updates, applied, lockVars, commitVars, typeVars,
                   codecVars, hashVars>>

\* the first transaction of replica 1 inserts a string
FirstInsert(index) ==
    /\ Len(updates) = 0
    /\ LocalInsert(1, Root, index, "string", SliceLen)

NextLink ==
    \/ \E index \in {0} : FirstInsert(index)
    \/ \E c \in Clients, k \in 1..(SliceLen + 2), branch \in Linkers :
          LinkItem(c, k, branch)
    \/ \E c \in Clients, k \in 1..(SliceLen + 2),
          start \in 0..(SliceLen - 1), end \in 0..(SliceLen - 1) :
          MaterializeLinked(c, k, start, end)

SpecLink == Init /\ [][NextLink]_vars

\* the ids of the cells of `after` that `before` does not hold
NewPieces(before, after) ==
    {after[i].id : i \in 1..Len(after)} \ {before[i].id : i \in 1..Len(before)}

\* every new piece has the links of the item, whose entry is as it was
Propagated(lb, lb2, id, pieces) ==
    /\ \A p \in pieces : p \in DOMAIN lb2 /\ lb[id] \subseteq lb2[p]
    /\ id \in DOMAIN lb2
    /\ lb2[id] = lb[id]

\* C34 (the back-index follows a split): if an item is linked and
\* linked_by maps it to a set S of branches, then after materialize splits
\* it linked_by maps every piece created to a set that contains S, and the
\* entry of the item is unchanged; for an item that is not linked
\* materialize leaves linked_by unchanged
LinksPropagate ==
    \A c \in Clients : \A k \in 1..Len(store[1].blocks[c]) :
        \A start \in 0..(store[1].blocks[c][k].len - 1) :
            \A end \in start..(store[1].blocks[c][k].len - 1) :
                IF store[1].blocks[c][k].id \in linked
                   /\ store[1].blocks[c][k].id \in DOMAIN linked_by
                THEN Propagated(linked_by,
                         MaterializeLinks(linked_by,
                             LinksOf(linked, linked_by,
                                     store[1].blocks[c][k].id),
                             store[1].blocks[c][k].id, start, end,
                             store[1].blocks[c][k].len),
                         store[1].blocks[c][k].id,
                         NewPieces(store[1].blocks[c],
                             Materialize(store[1], store[1].blocks[c][k].id,
                                         start, end).blocks[c]))
                ELSE MaterializeLinks(linked_by,
                         LinksOf(linked, linked_by, store[1].blocks[c][k].id),
                         store[1].blocks[c][k].id, start, end,
                         store[1].blocks[c][k].len) = linked_by

\* a linked item was cut on both sides: its three pieces have its links,
\* and the store holds an item that is not linked
LinksPropagateWitness ==
    \E c \in Clients : \E k \in 1..Len(store[1].blocks[c]) :
        /\ k + 2 <= Len(store[1].blocks[c])
        /\ store[1].blocks[c][k].id \in DOMAIN linked_by
        /\ linked_by[store[1].blocks[c][k].id] = Linkers
        /\ \A i \in {k + 1, k + 2} :
              /\ store[1].blocks[c][i].id \in DOMAIN linked_by
              /\ linked_by[store[1].blocks[c][i].id] = Linkers
              /\ store[1].blocks[c][i].origin = LastId(store[1].blocks[c][i - 1])
        /\ \E d \in Clients : \E i \in 1..Len(store[1].blocks[d]) :
              store[1].blocks[d][i].id \notin linked
----------------------------------------------------------------------------
(* Removal of the map key *)

\* a remove that returns the value of a deleted item too
RemoveAny(s) ==
    IF MapEntry(s) = None
    THEN [store |-> s, prev |-> None]
    ELSE [store |-> DeleteItem(s, MapEntry(s)),
          prev |-> <<GetItem(s, MapEntry(s)).content[
                         Len(GetItem(s, MapEntry(s)).content)]>>]

\* Branch::remove of the key: the store after txn.delete of the item of
\* the key and the value returned
Remove(s) ==
    IF MapEntry(s) = None
    THEN [store |-> s, prev |-> None]
    ELSE [store |-> DeleteItem(s, MapEntry(s)),
          prev |-> IF ~GetItem(s, MapEntry(s)).deleted
                   THEN <<GetItem(s, MapEntry(s)).content[
                              Len(GetItem(s, MapEntry(s)).content)]>>
                   ELSE None]

\* a transaction of replica r that removes the key and commits
MapRemove(r) ==
    /\ Len(updates) < MaxOps
    /\ store' = [store EXCEPT ![r] = Remove(@).store]
    /\ updates' = Append(updates, [blocks |-> {}, ds |-> Superseded(store[r])])
    /\ applied' = [applied EXCEPT ![r] = @ \cup {Len(updates) + 1}]
    /\ UNCHANGED <<lockVars, commitVars, utilVars>>

NextMapRemove ==
    \/ \E r \in Writers, value \in MapValues : MapSet(r, value)
    \/ \E r \in Writers : MapRemove(r)
    \/ \E r \in Clients, i \in 1..MaxOps : Deliver(r, i)

SpecMapRemove == InitMap /\ [][NextMapRemove]_vars

\* C39 (map removal): remove(txn, key) on a key whose current item is live
\* returns the value of that item and marks the item deleted, after which
\* get(key) returns nothing while branch.map still holds the item; remove
\* on a key that is absent or whose current item is deleted returns nothing
\* and changes no value visible through get
MapRemoval ==
    \A r \in Clients :
        IF Get(store[r]) # None
        THEN /\ Remove(store[r]).prev = Get(store[r])
             /\ IsDeleted(Remove(store[r]).store, MapEntry(store[r]))
             /\ Get(Remove(store[r]).store) = None
             /\ MapEntry(Remove(store[r]).store) = MapEntry(store[r])
             /\ Remove(store[r]).store.seqs = store[r].seqs
        ELSE /\ Remove(store[r]).prev = None
             /\ Get(Remove(store[r]).store) = None
             /\ Remove(store[r]).store = store[r]

\* a replica has removed the key after a write: the map holds the deleted
\* item; another replica holds the value still
MapRemovalWitness ==
    \E a \in Clients, b \in Clients :
        /\ MapEntry(store[a]) # None
        /\ IsDeleted(store[a], MapEntry(store[a]))
        /\ Get(store[a]) = None
        /\ Get(store[b]) # None
        /\ MapEntry(store[b]) = MapEntry(store[a])
----------------------------------------------------------------------------
(* The type of a root branch is repaired once *)

\* the branch with the type reference left out
Untyped(branch) == [branch EXCEPT !.type_ref = "Undefined"]

\* C40: the type of a root branch changes only from Undefined to a defined
\* type: get_or_create_type(name, t) on an existing root whose type is
\* Undefined sets its type to t, and on an existing root whose type is
\* defined leaves the type unchanged, whatever t is; in both cases the
\* start, the map and the lengths of the branch are unchanged
TypeRepairedOnce ==
    \A key \in DOMAIN types, t \in TypeRefs :
        /\ GetOrCreate(types, branches, node_registry, key, t)
               .branches[types[key]].type_ref
              = IF branches[types[key]].type_ref = "Undefined"
                THEN t ELSE branches[types[key]].type_ref
        /\ Untyped(GetOrCreate(types, branches, node_registry, key, t)
                       .branches[types[key]]) = Untyped(branches[types[key]])
        /\ \A p \in 1..Len(branches) :
              p # types[key] =>
                  GetOrCreate(types, branches, node_registry, key, t)
                      .branches[p] = branches[p]

\* a root that has grown is of type Undefined, and the other root is of a
\* defined type and was returned by the last call
TypeRepairedOnceWitness ==
    /\ DOMAIN types = Names
    /\ branches[types["a"]].type_ref = "Undefined"
    /\ branches[types["a"]].block_len > 0
    /\ branches[types["b"]].type_ref = "Map"
    /\ returned = <<types["b"]>>
----------------------------------------------------------------------------
(* From a path back to the branch *)

\* the name of the root branch of the document
RootName == "root"

\* Store::get_type for the document with the one root
GetRoot(name) == IF name = RootName THEN <<Root>> ELSE None

\* a lookup by index that takes any content for a nested type
RECURSIVE TypeAtFromAny(_, _, _)
TypeAtFromAny(s, ptr, index) ==
    IF ptr = None THEN None
    ELSE IF ~GetItem(s, ptr).deleted /\ IsCountable(GetItem(s, ptr))
    THEN IF index < GetItem(s, ptr).len
         THEN <<ptr>>
         ELSE TypeAtFromAny(s, RightOf(s, ptr), index - GetItem(s, ptr).len)
    ELSE TypeAtFromAny(s, RightOf(s, ptr), index)

\* the arm of PathSegment::Index: the branch of the item that get_at finds
\* for the index, if its content is a nested type
RECURSIVE TypeAtFrom(_, _, _)
TypeAtFrom(s, ptr, index) ==
    IF ptr = None THEN None
    ELSE IF ~GetItem(s, ptr).deleted /\ IsCountable(GetItem(s, ptr))
    THEN IF index < GetItem(s, ptr).len
         THEN IF GetItem(s, ptr).kind = "type" THEN <<ptr>> ELSE None
         ELSE TypeAtFrom(s, RightOf(s, ptr), index - GetItem(s, ptr).len)
    ELSE TypeAtFrom(s, RightOf(s, ptr), index)

\* the arm of PathSegment::Key: the branch of the item that the map of the
\* current branch holds for the key, if its content is a nested type
TypeUnder(s, current, key) ==
    IF current # Root \/ key # "key" \/ MapEntry(s) = None THEN None
    ELSE IF GetItem(s, MapEntry(s)).kind = "type" THEN <<MapEntry(s)>>
    ELSE None

\* the loop of get_type_from_path over the segments behind the first
RECURSIVE Descend(_, _, _)
Descend(s, current, segments) ==
    IF current = None \/ Len(segments) = 0 THEN current
    ELSE IF Head(segments).key # None
    THEN Descend(s, TypeUnder(s, current[1], Head(segments).key[1]),
                 Tail(segments))
    ELSE Descend(s, TypeAtFrom(s, StartOf(s, current[1]),
                               Head(segments).index),
                 Tail(segments))

\* Store::get_type_from_path
GetTypeFromPath(s, path) ==
    IF Len(path) = 0 \/ Head(path).key = None THEN None
    ELSE Descend(s, GetRoot(Head(path).key[1]), Tail(path))

\* the item of the branch and the items of the branches above it are not
\* deleted, and those under the map key are the entry of the key
RECURSIVE Attached(_, _)
Attached(s, b) ==
    \/ b = Root
    \/ /\ ~GetItem(s, b).deleted
       /\ GetItem(s, b).parent = Entry => MapEntry(s) = b
       /\ Attached(s, BranchOf(GetItem(s, b)))

\* the segments and the paths the lookups are made with
Segments ==
    {KeySegment(k) : k \in {RootName, "key", "none"}}
        \cup {IndexSegment(i) : i \in 0..3}

Paths == UNION {[1..n -> Segments] : n \in 0..3}

\* the branch is the root or the branch of an item that holds a type
IsType(s, b) ==
    \/ b = Root
    \/ HasId(s, b) /\ GetItem(s, b).id = b /\ GetItem(s, b).kind = "type"

\* C38 (path round trip): for the root branch named n and every nested
\* branch b reachable from it through items that are not deleted and are
\* the entry of their map key, get_type_from_path of the segment Key(n)
\* followed by path(root, b) returns b; get_type_from_path returns nothing
\* for an empty path, for a path whose first segment is an Index, for an
\* unknown root name, and when a segment resolves to content that is not a
\* nested type
PathRoundTrip ==
    \A r \in Clients :
        /\ \A b \in DOMAIN store[r].seqs \ {Entry} :
              Attached(store[r], b) =>
                  GetTypeFromPath(store[r], <<KeySegment(RootName)>>
                                      \o Path(store[r], Root, b)) = <<b>>
        /\ \A p \in Paths :
              IF p = <<>> \/ p[1].key # <<RootName>>
              THEN GetTypeFromPath(store[r], p) = None
              ELSE GetTypeFromPath(store[r], p) # None =>
                       IsType(store[r], GetTypeFromPath(store[r], p)[1])

\* a branch two levels below the root is found by its path [root, key,
\* index] with an index behind a text, and the path that ends at the text
\* finds nothing
PathRoundTripWitness ==
    \E r \in Clients : \E b \in DOMAIN store[r].seqs \ {Entry} :
        /\ Depth(store[r], b) = 2
        /\ Attached(store[r], b)
        /\ Path(store[r], Root, b)[2].index > 0
        /\ GetTypeFromPath(store[r], <<KeySegment(RootName)>>
                               \o Path(store[r], Root, b)) = <<b>>
        /\ GetTypeFromPath(store[r], <<KeySegment(RootName), KeySegment("key"),
                                       IndexSegment(0)>>) = None
----------------------------------------------------------------------------
(* Events of a transaction: the changes of the map key (event_keys of
   src/yrs/src/types/mod.rs).  Replica 1 works in transactions of several
   operations: it writes and removes the key and applies the updates of
   replica 2; txn holds the state vector at the begin of the transaction,
   the ids the transaction deleted and the changed branches. *)

\* the number of items replica 1 writes under the key
MaxKeyOps == 3

\* TransactionMut::has_added
HasAdded(t, id) == id[2] >= SvGet(t.before_state, id[1])

\* TransactionMut::has_deleted
HasDeleted(t, id) == id \in t.delete_set

\* item.left: the id of the item before it in its sequence, None at the start
LeftOf(s, id) ==
    IF PosOf(s.seqs[GetItem(s, id).parent], id) > 1
    THEN s.seqs[GetItem(s, id).parent][
             PosOf(s.seqs[GetItem(s, id).parent], id) - 1]
    ELSE None

\* ItemContent::get_last
GetLast(item) == item.content[Len(item.content)]

EntryInserted(new) == [kind |-> "Inserted", new |-> new]

EntryUpdated(old, new) == [kind |-> "Updated", old |-> old, new |-> new]

EntryRemoved(old) == [kind |-> "Removed", old |-> old]

\* a search that stops at the item to the left, created in the transaction
\* or not
PrevDirect(s, t, prev) == prev

\* the loop of event_keys over item.left: the nearest item from prev to the
\* left that the transaction did not add
RECURSIVE PrevBefore(_, _, _)
PrevBefore(s, t, prev) ==
    IF prev = None THEN None
    ELSE IF ~HasAdded(t, prev) THEN prev
    ELSE PrevBefore(s, t, LeftOf(s, prev))

\* the body of the loop of event_keys for the key of the root map: the
\* change of the key (as a sequence of one change), None for no change
EntryChange(s, t) ==
    IF MapEntry(s) = None THEN None
    ELSE IF HasAdded(t, MapEntry(s))
    THEN IF HasDeleted(t, MapEntry(s))
         THEN IF /\ PrevBefore(s, t, LeftOf(s, MapEntry(s))) # None
                 /\ HasDeleted(t, PrevBefore(s, t, LeftOf(s, MapEntry(s))))
              THEN <<EntryRemoved(GetLast(GetItem(s,
                         PrevBefore(s, t, LeftOf(s, MapEntry(s))))))>>
              ELSE None
         ELSE IF /\ PrevBefore(s, t, LeftOf(s, MapEntry(s))) # None
                 /\ HasDeleted(t, PrevBefore(s, t, LeftOf(s, MapEntry(s))))
              THEN <<EntryUpdated(GetLast(GetItem(s,
                         PrevBefore(s, t, LeftOf(s, MapEntry(s))))),
                             GetLast(GetItem(s, MapEntry(s))))>>
              ELSE <<EntryInserted(GetLast(GetItem(s, MapEntry(s))))>>
    ELSE IF HasDeleted(t, MapEntry(s))
    THEN <<EntryRemoved(GetLast(GetItem(s, MapEntry(s))))>>
    ELSE None

\* event_keys: the change of every changed key that has one
EventKeys(s, t, keys_changed) ==
    [key \in {k \in keys_changed : k = "key" /\ EntryChange(s, t) # None} |->
        EntryChange(s, t)[1]]

\* the keys of the root map that the transaction recorded as changed
KeysChanged(t) ==
    IF \E i \in 1..Len(t.changed) : t.changed[i] = Event(<<>>)
    THEN {"key"}
    ELSE {}

\* replica 1 begins a transaction
BeginKeys ==
    /\ ~txn.open
    /\ txn' = [txn EXCEPT !.open = TRUE,
                          !.before_state = GetStateVector(store[1]),
                          !.after_state = GetStateVector(store[1]),
                          !.delete_set = {},
                          !.changed = <<>>]
    /\ UNCHANGED <<subscribed, calls, crdtVars, lockVars, utilVars>>

\* the transaction writes a value under the key
KeySet(value) ==
    /\ txn.open
    /\ GetClock(store[1], 1) < MaxKeyOps
    /\ store' = [store EXCEPT ![1] =
           CreateItem(@, 1, Entry, MapEntry(@), None, "string",
                      <<value>>, 1).store]
    /\ txn' = [txn EXCEPT !.delete_set = @ \cup Superseded(store[1]),
                          !.changed = AddChanged(@, <<>>)]
    /\ UNCHANGED <<updates, applied, subscribed, calls, lockVars, utilVars>>

\* the transaction removes the key
KeyRemove ==
    /\ txn.open
    /\ Get(store[1]) # None
    /\ store' = [store EXCEPT ![1] = Remove(@).store]
    /\ txn' = [txn EXCEPT !.delete_set = @ \cup Superseded(store[1]),
                          !.changed = AddChanged(@, <<>>)]
    /\ UNCHANGED <<updates, applied, subscribed, calls, lockVars, utilVars>>

\* the transaction applies an update of replica 2
KeyApply(i) ==
    /\ txn.open
    /\ i \in 1..Len(updates)
    /\ ApplyUpdate(store[1], updates[i]) # store[1]
    /\ store' = [store EXCEPT ![1] = ApplyUpdate(@, updates[i])]
    /\ applied' = [applied EXCEPT ![1] = @ \cup {i}]
    /\ txn' = [txn EXCEPT
           !.delete_set = @ \cup (DeleteSetOf(ApplyUpdate(store[1], updates[i]))
                                      \ DeleteSetOf(store[1])),
           !.changed = AddChanged(@, <<>>)]
    /\ UNCHANGED <<updates, subscribed, calls, lockVars, utilVars>>

\* the transaction commits
CommitKeys ==
    /\ txn.open
    /\ txn' = [txn EXCEPT !.open = FALSE,
                          !.after_state = GetStateVector(store[1])]
    /\ UNCHANGED <<subscribed, calls, crdtVars, lockVars, utilVars>>

NextKeys ==
    \/ BeginKeys
    \/ \E value \in MapValues : KeySet(value)
    \/ KeyRemove
    \/ \E i \in 1..MaxOps : KeyApply(i)
    \/ CommitKeys
    \/ \E value \in MapValues : MapSet(2, value)
    \/ MapRemove(2)

SpecKeys == InitMap /\ [][NextKeys]_vars

\* the nearest item to the left of the item of the key that the transaction
\* did not create, None without one
Predecessor(s, t) ==
    IF \E i \in 1..(Len(s.seqs[Entry]) - 1) : ~HasAdded(t, s.seqs[Entry][i])
    THEN s.seqs[Entry][CHOOSE i \in 1..(Len(s.seqs[Entry]) - 1) :
                          /\ ~HasAdded(t, s.seqs[Entry][i])
                          /\ \A j \in (i + 1)..(Len(s.seqs[Entry]) - 1) :
                                HasAdded(t, s.seqs[Entry][j])]
    ELSE None

\* the predecessor exists and the transaction deleted it
PredecessorDeleted(s, t) ==
    Predecessor(s, t) # None /\ Predecessor(s, t) \in t.delete_set

ValueOf(s, id) == GetItem(s, id).content[Len(GetItem(s, id).content)]

\* the changes of the keys agree with the classification
Classified(s, t, keys) ==
    /\ "key" \notin keys => EventKeys(s, t, keys) = <<>>
    /\ "key" \in keys /\ MapEntry(s) # None =>
          /\ HasAdded(t, MapEntry(s)) /\ ~GetItem(s, MapEntry(s)).deleted =>
                /\ "key" \in DOMAIN EventKeys(s, t, keys)
                /\ EventKeys(s, t, keys)["key"] =
                       IF PredecessorDeleted(s, t)
                       THEN EntryUpdated(ValueOf(s, Predecessor(s, t)),
                                    ValueOf(s, MapEntry(s)))
                       ELSE EntryInserted(ValueOf(s, MapEntry(s)))
          /\ ~HasAdded(t, MapEntry(s)) /\ MapEntry(s) \in t.delete_set =>
                /\ "key" \in DOMAIN EventKeys(s, t, keys)
                /\ EventKeys(s, t, keys)["key"] =
                       EntryRemoved(ValueOf(s, MapEntry(s)))
          /\ /\ HasAdded(t, MapEntry(s))
             /\ MapEntry(s) \in t.delete_set
             /\ ~PredecessorDeleted(s, t)
             => "key" \notin DOMAIN EventKeys(s, t, keys)

\* C35 (map change classification at commit): for each changed key, if the
\* current item of the key was created in the transaction and is live, the
\* change is Updated(old, new) when its nearest left predecessor not created
\* in the transaction exists and was deleted in the transaction, and
\* Inserted(new) otherwise; if the current item existed before the
\* transaction and was deleted in it, the change is Removed(old); a key
\* whose current item was both created and deleted in the transaction and
\* has no predecessor deleted in it, and a key that is not in the changed
\* set, are not reported
KeysClassified ==
    /\ Classified(store[1], txn, KeysChanged(txn))
    /\ Classified(store[1], txn, {})

\* the transaction wrote the key twice over a value it found: the item of
\* the key and the item to its left are its own, and the change is Updated
\* from the value it found, which is not the value to the left
KeysClassifiedWitness ==
    /\ txn.open
    /\ MapEntry(store[1]) # None
    /\ HasAdded(txn, MapEntry(store[1]))
    /\ ~GetItem(store[1], MapEntry(store[1])).deleted
    /\ LeftOf(store[1], MapEntry(store[1])) # None
    /\ HasAdded(txn, LeftOf(store[1], MapEntry(store[1])))
    /\ PredecessorDeleted(store[1], txn)
    /\ ValueOf(store[1], Predecessor(store[1], txn))
           # ValueOf(store[1], LeftOf(store[1], MapEntry(store[1])))
    /\ EventKeys(store[1], txn, KeysChanged(txn))["key"].kind = "Updated"
----------------------------------------------------------------------------
(* Events of a transaction: the delta of a sequence (event_change_set of
   src/yrs/src/types/mod.rs).  Replica 1 works in transactions of several
   operations on the root sequence: it inserts and removes elements and
   applies the updates of replica 2.  The sequences hold no move content:
   item.moved is None for every item and txn.prev_moved is empty. *)

\* the number of elements replica 1 inserts
MaxTextOps == 2

\* a Change is a record of its kind (Added, Removed, Retain), its values and
\* its length

\* the state of the loop before the first item
NoChanges == [added |-> {}, deleted |-> {}, delta |-> <<>>, last_op |-> None]

\* match last_op.take(): the pending change grows by the values and the
\* length if it is of the kind, and is pushed to the delta and replaced
\* otherwise
Merged(acc, kind, values, len) ==
    IF acc.last_op = None
    THEN [acc EXCEPT !.last_op =
             <<[kind |-> kind, values |-> values, len |-> len]>>]
    ELSE IF acc.last_op[1].kind = kind
    THEN [acc EXCEPT !.last_op =
             <<[kind |-> kind, values |-> acc.last_op[1].values \o values,
                len |-> acc.last_op[1].len + len]>>]
    ELSE [acc EXCEPT !.delta = Append(@, acc.last_op[1]),
                     !.last_op =
             <<[kind |-> kind, values |-> values, len |-> len]>>]

\* a loop body that counts every item the transaction deleted as removed,
\* an item that the transaction added too
ChangeStepDeleted(acc, t, item) ==
    IF item.deleted
    THEN IF HasDeleted(t, item.id)
         THEN [Merged(acc, "Removed", <<>>, item.len)
                  EXCEPT !.deleted = @ \cup {item.id}]
         ELSE acc
    ELSE IF HasAdded(t, item.id)
    THEN [Merged(acc, "Added", item.content, Len(item.content))
             EXCEPT !.added = @ \cup {item.id}]
    ELSE Merged(acc, "Retain", <<>>, item.len)

\* the body of the loop of event_change_set for an item that is not moved
ChangeStep(acc, t, item) ==
    IF item.deleted
    THEN IF HasDeleted(t, item.id) /\ ~HasAdded(t, item.id)
         THEN [Merged(acc, "Removed", <<>>, item.len)
                  EXCEPT !.deleted = @ \cup {item.id}]
         ELSE acc
    ELSE IF HasAdded(t, item.id)
    THEN [Merged(acc, "Added", item.content, Len(item.content))
             EXCEPT !.added = @ \cup {item.id}]
    ELSE Merged(acc, "Retain", <<>>, item.len)

\* the loop of event_change_set from the item current to the end
RECURSIVE ChangeLoop(_, _, _, _)
ChangeLoop(s, t, current, acc) ==
    IF current = None THEN acc
    ELSE ChangeLoop(s, t, RightOf(s, current),
                    ChangeStep(acc, t, GetItem(s, current)))

\* an end of the loop that pushes the pending change whatever its kind
ChangeSetOfAny(acc) ==
    [added |-> acc.added, deleted |-> acc.deleted,
     delta |-> IF acc.last_op = None
               THEN acc.delta
               ELSE Append(acc.delta, acc.last_op[1])]

\* the end of event_change_set: the pending change is pushed unless it is a
\* Retain
ChangeSetOf(acc) ==
    [added |-> acc.added, deleted |-> acc.deleted,
     delta |-> IF acc.last_op = None \/ acc.last_op[1].kind = "Retain"
               THEN acc.delta
               ELSE Append(acc.delta, acc.last_op[1])]

\* event_change_set
EventChangeSet(s, t, start) == ChangeSetOf(ChangeLoop(s, t, start, NoChanges))

\* replica 1 begins a transaction on the root sequence
BeginText ==
    /\ ~txn.open
    /\ txn' = [txn EXCEPT !.open = TRUE,
                          !.before_state = GetStateVector(store[1]),
                          !.after_state = GetStateVector(store[1]),
                          !.delete_set = {},
                          !.changed = <<>>]
    /\ UNCHANGED <<subscribed, calls, crdtVars, lockVars, utilVars>>

\* the transaction inserts one element at the index
TextInsert(index) ==
    /\ txn.open
    /\ GetClock(store[1], 1) < MaxTextOps
    /\ index \in 0..BranchLen(store[1], Root)
    /\ store' = [store EXCEPT ![1] =
           InsertAtIndex(@, 1, Root, index, "string",
                         NewContent(@, 1, "string", 1), 1).store]
    /\ txn' = [txn EXCEPT !.changed = AddChanged(@, <<>>)]
    /\ UNCHANGED <<updates, applied, subscribed, calls, lockVars, utilVars>>

\* the transaction removes the element at the index
TextRemove(index) ==
    /\ txn.open
    /\ index \in 0..(BranchLen(store[1], Root) - 1)
    /\ store' = [store EXCEPT ![1] = RemoveAt(@, Root, index, 1).store]
    /\ txn' = [txn EXCEPT
           !.delete_set = @ \cup RemoveAt(store[1], Root, index, 1).ds,
           !.changed = AddChanged(@, <<>>)]
    /\ UNCHANGED <<updates, applied, subscribed, calls, lockVars, utilVars>>

\* the transaction applies an update of replica 2
TextApply(i) ==
    /\ txn.open
    /\ i \in 1..Len(updates)
    /\ ApplyUpdate(store[1], updates[i]) # store[1]
    /\ store' = [store EXCEPT ![1] = ApplyUpdate(@, updates[i])]
    /\ applied' = [applied EXCEPT ![1] = @ \cup {i}]
    /\ txn' = [txn EXCEPT
           !.delete_set = @ \cup (DeleteSetOf(ApplyUpdate(store[1], updates[i]))
                                      \ DeleteSetOf(store[1])),
           !.changed = AddChanged(@, <<>>)]
    /\ UNCHANGED <<updates, subscribed, calls, lockVars, utilVars>>

\* the transaction commits
CommitText ==
    /\ txn.open
    /\ txn' = [txn EXCEPT !.open = FALSE,
                          !.after_state = GetStateVector(store[1])]
    /\ UNCHANGED <<subscribed, calls, crdtVars, lockVars, utilVars>>

\* the one transaction of replica 2: it inserts an element behind the first
RemoteInsert == Len(updates) = 0 /\ LocalInsert(2, Root, 1, "string", 1)

\* the one transaction of replica 2: it removes the first element
RemoteRemove == Len(updates) = 0 /\ LocalRemove(2, Root, 0, 1)

NextDelta ==
    \/ BeginText
    \/ \E index \in 0..(SliceLen + 2) : TextInsert(index)
    \/ \E index \in 0..(SliceLen + 2) : TextRemove(index)
    \/ TextApply(1)
    \/ CommitText
    \/ RemoteInsert
    \/ RemoteRemove

SpecDelta == Init /\ [][NextDelta]_vars

\* the delta of the transaction of replica 1 as it stands
Delta == EventChangeSet(store[1], txn, StartOf(store[1], Root)).delta

Without(s, id) ==
    [s EXCEPT !.seqs[Root] = SelectSeq(@, LAMBDA x : x # id)]

\* the items of the root sequence that the transaction created and deleted
CreatedAndDeleted(s, t) ==
    {id \in {s.seqs[Root][i] : i \in 1..Len(s.seqs[Root])} :
        HasAdded(t, id) /\ GetItem(s, id).deleted}

\* C37 (created and deleted in one transaction): an item that is both
\* created and deleted within the same transaction, and is not affected by
\* a move, contributes nothing to the change set of that transaction: it
\* adds no Added, Removed or Retain length to the delta (the delta is the
\* delta of the sequence without the item) and appears in neither the added
\* nor the deleted id set
TransientItemsSilent ==
    \A id \in CreatedAndDeleted(store[1], txn) :
        /\ id \notin EventChangeSet(store[1], txn,
                                    StartOf(store[1], Root)).added
        /\ id \notin EventChangeSet(store[1], txn,
                                    StartOf(store[1], Root)).deleted
        /\ EventChangeSet(Without(store[1], id), txn,
                          StartOf(Without(store[1], id), Root))
               = EventChangeSet(store[1], txn, StartOf(store[1], Root))

\* the transaction inserted an element between two elements it found,
\* removed it and removed the two: the delta is one Removed of length 2
TransientItemsSilentWitness ==
    /\ txn.open
    /\ \E i \in 2..(Len(store[1].seqs[Root]) - 1) :
          /\ store[1].seqs[Root][i] \in CreatedAndDeleted(store[1], txn)
          /\ ~HasAdded(txn, store[1].seqs[Root][i - 1])
          /\ ~HasAdded(txn, store[1].seqs[Root][i + 1])
          /\ HasDeleted(txn, store[1].seqs[Root][i - 1])
          /\ HasDeleted(txn, store[1].seqs[Root][i + 1])
    /\ Delta = <<[kind |-> "Removed", values |-> <<>>, len |-> 2]>>
====
